---- MODULE Spec2Model ----
(***************************************************************************)
(* A model of the picocadrs document codec (src/src/assets): the colour    *)
(* palette, the footer texture, faces, meshes, edges, rotations and the    *)
(* document (Model) parse / Display pair.                                  *)
(*                                                                         *)
(* Each component has its own specification (SpecColor, SpecFooter, ...)   *)
(* over the shared variables; a specification leaves the variables of the  *)
(* other components at their initial values.                               *)
(*                                                                         *)
(* Text is a sequence of one-character strings.  Rust's Vec is 0-based,    *)
(* a TLA+ sequence 1-based: data[i] of the source is data[i + 1] here.     *)
(***************************************************************************)
EXTENDS Integers, Sequences, FiniteSets, TLC

VARIABLES
    op,       \* the operation that ran last ("init" before any)
    arg,      \* the argument(s) that operation was called with
    ret,      \* what that operation returned
    footer,   \* Footer.data of the footer the program holds
    nsets     \* how many set calls the footer has seen

vars == <<op, arg, ret, footer, nsets>>

None == [none |-> TRUE]

(***************************************************************************)
(* Color  (src/src/assets/color.rs)                                        *)
(***************************************************************************)
Colors ==
    <<"Black", "DarkBlue", "DarkPurple", "DarkGreen", "Brown", "DarkGrey",
      "LightGrey", "White", "Red", "Orange", "Yellow", "Green", "Blue",
      "Lavender", "Pink", "LightPeach">>

Color == {Colors[i] : i \in 1..16} \cup {"Invalid"}

HexChars ==
    <<"0", "1", "2", "3", "4", "5", "6", "7", "8", "9", "a", "b", "c", "d", "e", "f">>

as_i32(c) ==
    IF c = "Invalid" THEN 0
    ELSE CHOOSE i \in 0..15 : Colors[i + 1] = c

as_char(c) ==
    IF c = "Invalid" THEN "0"
    ELSE HexChars[(CHOOSE i \in 0..15 : Colors[i + 1] = c) + 1]

\* Color::shadow
shadow(c) ==
    CASE c = "Invalid" -> "Invalid"
      [] c \in {"Black", "DarkBlue", "DarkPurple", "DarkGrey"} -> "Black"
      [] c \in {"DarkGreen", "Brown", "Red", "Green", "Lavender"} -> "DarkBlue"
      [] c \in {"LightGrey", "Blue"} -> "DarkGrey"
      [] c \in {"Orange", "Pink"} -> "DarkPurple"
      [] c \in {"Yellow", "LightPeach"} -> "Brown"
      [] c = "White" -> "Lavender"

\* Color::shadow_transition with the arms of Orange and Yellow leading to each
\* other.
shadow_transition_cycle(c) ==
    CASE c = "Invalid" -> "Invalid"
      [] c \in {"Black", "DarkBlue"} -> "Black"
      [] c \in {"DarkPurple", "DarkGrey"} -> "DarkBlue"
      [] c \in {"DarkGreen", "Lavender"} -> "DarkGrey"
      [] c \in {"Brown", "Red"} -> "DarkPurple"
      [] c \in {"LightGrey", "Blue"} -> "Lavender"
      [] c \in {"Yellow", "LightPeach"} -> "Orange"
      [] c = "White" -> "LightGrey"
      [] c = "Orange" -> "Yellow"
      [] c = "Green" -> "DarkGreen"
      [] c = "Pink" -> "Red"

\* Color::shadow_transition
shadow_transition(c) ==
    CASE c = "Invalid" -> "Invalid"
      [] c \in {"Black", "DarkBlue"} -> "Black"
      [] c \in {"DarkPurple", "DarkGrey"} -> "DarkBlue"
      [] c \in {"DarkGreen", "Lavender"} -> "DarkGrey"
      [] c \in {"Brown", "Red"} -> "DarkPurple"
      [] c \in {"LightGrey", "Blue"} -> "Lavender"
      [] c \in {"Yellow", "LightPeach"} -> "Orange"
      [] c = "White" -> "LightGrey"
      [] c = "Orange" -> "Brown"
      [] c = "Green" -> "DarkGreen"
      [] c = "Pink" -> "Red"

from_i32_offbyone(value) ==
    IF value \in 1..16 THEN Colors[value] ELSE "Invalid"

from_i32(value) ==
    IF value \in 0..15 THEN Colors[value + 1] ELSE "Invalid"

from_char(value) ==
    IF \E i \in 1..16 : HexChars[i] = value
    THEN Colors[CHOOSE i \in 1..16 : HexChars[i] = value]
    ELSE "Invalid"

\* The hex strings and the (r, g, b) of the palette, in the order of Colors.
HexStrings ==
    <<<<"0", "0", "0", "0", "0", "0">>,
      <<"1", "D", "2", "B", "5", "3">>,
      <<"7", "E", "2", "5", "5", "3">>,
      <<"0", "0", "8", "7", "5", "1">>,
      <<"A", "B", "5", "2", "3", "6">>,
      <<"5", "F", "5", "7", "4", "F">>,
      <<"C", "2", "C", "3", "C", "7">>,
      <<"F", "F", "F", "1", "E", "8">>,
      <<"F", "F", "0", "0", "4", "D">>,
      <<"F", "F", "A", "3", "0", "0">>,
      <<"F", "F", "E", "C", "2", "7">>,
      <<"0", "0", "E", "4", "3", "6">>,
      <<"2", "9", "A", "D", "F", "F">>,
      <<"8", "3", "7", "6", "9", "C">>,
      <<"F", "F", "7", "7", "A", "8">>,
      <<"F", "F", "C", "C", "A", "A">>>>

RgbValues ==
    <<<<0, 0, 0>>, <<29, 43, 83>>, <<126, 37, 83>>, <<0, 135, 81>>, <<171, 82, 54>>,
      <<95, 87, 79>>, <<194, 195, 199>>, <<255, 241, 232>>, <<255, 0, 77>>, <<255,
      163, 0>>, <<255, 236, 39>>, <<0, 228, 54>>, <<41, 173, 255>>, <<131, 118, 156>>,
      <<255, 119, 168>>, <<255, 204, 170>>>>

as_hex(c) ==
    IF c = "Invalid" THEN HexStrings[1]
    ELSE HexStrings[(CHOOSE i \in 0..15 : Colors[i + 1] = c) + 1]

\* as_rgb with Invalid written as white.
as_rgb_invalid_white(c) ==
    IF c = "Invalid" THEN <<255, 255, 255>>
    ELSE RgbValues[(CHOOSE i \in 0..15 : Colors[i + 1] = c) + 1]

as_rgb(c) ==
    IF c = "Invalid" THEN <<0, 0, 0>>
    ELSE RgbValues[(CHOOSE i \in 0..15 : Colors[i + 1] = c) + 1]

from_rgb(value) ==
    IF \E i \in 1..16 : RgbValues[i] = value
    THEN Colors[CHOOSE i \in 1..16 : RgbValues[i] = value]
    ELSE "Invalid"

\* The derived PartialEq of the enum: the same variant.
Color_eq(a, b) == a = b

\* i32::MIN and i32::MAX, the ends of the argument type of From<i32>.
I32Min == -2147483647 - 1
I32Max == 2147483647

\* The integers tried as colour codes: a band around the palette and the ends of i32.
MaxCode == 60
Codes == (-MaxCode..MaxCode) \cup {I32Min, I32Max}


(***************************************************************************)
(* Footer  (src/src/assets/footer.rs)                                      *)
(***************************************************************************)
DATA_LENGHT == 15360

\* Result values: Ok(v) / Err(e) of Result, Some(v) / None of Option.
Ok(v) == [ok |-> TRUE, val |-> v]
Err(e) == [ok |-> FALSE, err |-> e]
Some(v) == [some |-> TRUE, val |-> v]
NoneOpt == [some |-> FALSE]
Unit == "()"

\* Point2D<usize> as a record.
Point2D(u, v) == [u |-> u, v |-> v]

Footer_default == [i \in 1..DATA_LENGHT |-> "Black"]

\* index / index_mut: the slot of data a pixel lives in (panics out of range).
\* The slot of a pixel in a buffer laid out by columns.
Footer_data_index_columns(index) == index.u * 120 + index.v

Footer_data_index(index) == index.u + index.v * 128

Footer_index_panics(index) == index.u > 127 \/ index.v > 119

Footer_index(data, index) ==
    IF Footer_index_panics(index) THEN "panic"
    ELSE data[Footer_data_index(index) + 1]

Footer_get_loose(data, coords) ==
    IF coords.u > 128 \/ coords.v > 120 THEN NoneOpt
    ELSE Some(Footer_index(data, coords))

Footer_get(data, coords) ==
    IF coords.u > 127 \/ coords.v > 119 THEN NoneOpt
    ELSE Some(Footer_index(data, coords))

Footer_index_mut(data, index, value) ==
    IF Footer_index_panics(index) THEN "panic"
    ELSE [data EXCEPT ![Footer_data_index(index) + 1] = value]

\* A panic (the thread unwinds: no value is returned).
Panic == [ok |-> FALSE, err |-> <<"panic">>]

\* set returns the pair (data afterwards, result).
Footer_set(data, coords, value) ==
    IF coords.u > 127 \/ coords.v > 119
    THEN [data |-> data, res |-> Err(<<"IndexUSIZE", coords, Point2D(128, 120)>>)]
    ELSE IF Footer_index_panics(coords)
         THEN [data |-> data, res |-> Panic]
         ELSE [data |-> Footer_index_mut(data, coords, value), res |-> Ok(Unit)]

Footer_is_solid_first_two(data) ==
    LET comp == data[1]
    IN  \A i \in 1..2 : data[i] = comp

Footer_is_solid(data) ==
    LET comp == data[1]
    IN  \A i \in 1..Len(data) : data[i] = comp

\* from_str: drop ' ' and '\n', map every other character through Color::from(char),
\* fail unless exactly DATA_LENGHT colours are left.
Footer_filter(c) == c \notin {" ", "\n"}

Footer_from_str_pad(s) ==
    LET kept == SelectSeq(s, Footer_filter)
    IN  Ok([i \in 1..DATA_LENGHT |->
               IF i <= Len(kept) THEN from_char(kept[i]) ELSE "Black"])

Footer_from_str(s) ==
    LET kept == SelectSeq(s, Footer_filter)
        data == [i \in 1..Len(kept) |-> from_char(kept[i])]
    IN  IF Len(data) # DATA_LENGHT
        THEN Err(<<"FooterLength", Len(data)>>)
        ELSE Ok(data)

\* Display: the 15360 characters with a '\n' inserted after every 128.
Footer_to_string(data) ==
    [i \in 1..(DATA_LENGHT + 120) |->
        IF i % 129 = 0 THEN "\n" ELSE as_char(data[i - (i \div 129)])]

(***************************************************************************)
(* Footer texts tried by the parse: `lines` lines of `width` characters    *)
(* `fill`, each followed by the separator `sep`, with the character `mark` *)
(* written at position `at` of the first line.                             *)
(***************************************************************************)
FooterText(d) ==
    LET w == d.width + Len(d.sep)
    IN  [i \in 1..(d.lines * w) |->
            LET col == ((i - 1) % w) + 1
            IN  IF col > d.width THEN d.sep[col - d.width]
                ELSE IF i = d.at THEN d.mark
                ELSE d.fill]

MaxExtraLines == 1
FooterTexts ==
    [ lines : (120 - MaxExtraLines)..(120 + MaxExtraLines),
      width : {128},
      sep   : {<<"\n">>, <<>>},
      fill  : {"0", "d"},
      mark  : {"d", "x"},
      at    : {1} ]

\* Pixel coordinates and colours tried by get and set: corners of the texture,
\* their neighbours just outside it (one coordinate out of range at a time), and
\* a far index.
BigIndex == 1000000
Coords ==
    {Point2D(0, 0), Point2D(127, 0), Point2D(127, 119),
     Point2D(128, 119), Point2D(127, 120), Point2D(BigIndex, BigIndex)}
SetColors == {"Black", "Lavender", "Invalid"}
MaxSets == 1


(***************************************************************************)
(* f64 values.  An f64 is modelled by an integer (a fixed-point count of   *)
(* ten-thousandths where arithmetic is done on it, see Rotation), by NaN,   *)
(* the one value that the == of f64 does not relate to itself, or by an    *)
(* infinity.                                                               *)
(***************************************************************************)
NaN == -2000000000
Inf == 1900000000
NegInf == -1900000000

\* f64::is_finite
f64_is_finite(v) == v \notin {NaN, Inf, NegInf}

\* f64 as PartialEq: ==
f64_eq(a, b) == a # NaN /\ b # NaN /\ a = b

\* Generic helpers on sequences.
SeqsUpTo(S, n) == UNION {[1..k -> S] : k \in 0..n}

RECURSIVE Concat(_)
Concat(ss) == IF ss = <<>> THEN <<>> ELSE Head(ss) \o Concat(Tail(ss))

\* slice.get(i) of a 0-based index: Some(element) or None.  An index below 0
\* stands for a usize above every length (see USIZE_MAX).
Vec_get(v, i) == IF i >= 0 /\ i < Len(v) THEN Some(v[i + 1]) ELSE NoneOpt

(***************************************************************************)
(* Point3D and Edge  (src/src/assets/point.rs, src/src/assets/edge.rs)     *)
(***************************************************************************)
Point3D(x, y, z) == [x |-> x, y |-> y, z |-> z]

\* #[derive(PartialEq)] on Point3D<f64>: componentwise ==.
Point3D_eq(a, b) == f64_eq(a.x, b.x) /\ f64_eq(a.y, b.y) /\ f64_eq(a.z, b.z)

Edge_new(start, end) == [start |-> start, end |-> end]

Edge_eq_directed(a, b) == Point3D_eq(a.start, b.start) /\ Point3D_eq(a.end, b.end)

Edge_eq(a, b) ==
    \/ (Point3D_eq(a.start, b.start) /\ Point3D_eq(a.end, b.end))
    \/ (Point3D_eq(a.start, b.end) /\ Point3D_eq(a.end, b.start))

\* Vec<Edge>::contains: some element is == to the edge.
Edges_contains(edges, edge) == \E i \in 1..Len(edges) : Edge_eq(edges[i], edge)

(***************************************************************************)
(* Face geometry  (src/src/assets/face.rs)                                 *)
(***************************************************************************)
UVMap_new(vertex_index, coords) == [vertex_index |-> vertex_index, coords |-> coords]

\* The for loop of Face::edges over uv_maps[k..], carrying (result, last).
RECURSIVE Face_edges_loop(_, _, _, _, _)
Face_edges_loop(uv_maps, mesh_vertices, k, result, last) ==
    IF k > Len(uv_maps) THEN [result |-> result, last |-> last]
    ELSE LET got == Vec_get(mesh_vertices, uv_maps[k].vertex_index)
         IN  IF ~got.some
             THEN Face_edges_loop(uv_maps, mesh_vertices, k + 1, result, last)
             ELSE Face_edges_loop(uv_maps, mesh_vertices, k + 1,
                      IF ~Point3D_eq(got.val, last)
                      THEN Append(result, Edge_new(last, got.val))
                      ELSE result,
                      got.val)

\* Face::edges without its closing edge.
Face_edges_open(face, mesh_vertices) ==
    IF Len(face.uv_maps) < 2 THEN <<>>
    ELSE LET first == Vec_get(mesh_vertices, face.uv_maps[1].vertex_index)
         IN  IF ~first.some THEN <<>>
             ELSE Face_edges_loop(face.uv_maps, mesh_vertices, 1, <<>>, first.val).result

Face_edges(face, mesh_vertices) ==
    IF Len(face.uv_maps) < 2 THEN <<>>
    ELSE LET first == Vec_get(mesh_vertices, face.uv_maps[1].vertex_index)
         IN  IF ~first.some THEN <<>>
             ELSE LET start == first.val
                      done == Face_edges_loop(face.uv_maps, mesh_vertices, 1, <<>>, start)
                  IN  Append(done.result, Edge_new(done.last, start))

RECURSIVE Face_vertices(_, _)
Face_vertices(face, mesh_vertices) ==
    IF face.uv_maps = <<>> THEN <<>>
    ELSE LET got == Vec_get(mesh_vertices, face.uv_maps[1].vertex_index)
             rest == Face_vertices([face EXCEPT !.uv_maps = Tail(@)], mesh_vertices)
         IN  IF got.some THEN <<got.val>> \o rest ELSE rest

(***************************************************************************)
(* Mesh::edges  (src/src/assets/mesh.rs)                                   *)
(***************************************************************************)
\* The inner loop: push every edge that the list does not contain yet.
RECURSIVE Push_new_edges(_, _)
Push_new_edges(face_edges, edges) ==
    IF edges = <<>> THEN face_edges
    ELSE Push_new_edges(
             IF ~Edges_contains(face_edges, Head(edges))
             THEN Append(face_edges, Head(edges))
             ELSE face_edges,
             Tail(edges))

RECURSIVE Mesh_edges_loop(_, _, _)
Mesh_edges_loop(mesh, k, face_edges) ==
    IF k > Len(mesh.faces) THEN face_edges
    ELSE Mesh_edges_loop(mesh, k + 1,
             Push_new_edges(face_edges, Face_edges(mesh.faces[k], mesh.vertices)))

Mesh_edges_no_dedup(mesh) ==
    Concat([k \in 1..Len(mesh.faces) |-> Face_edges(mesh.faces[k], mesh.vertices)])

Mesh_edges(mesh) == Mesh_edges_loop(mesh, 1, <<>>)

(***************************************************************************)
(* Rotation (mesh.rs).  Components are f64 counted in ten-thousandths of a *)
(* turn; the inputs are the values on which f64 arithmetic is exact for    *)
(* these operations (see RotValues).                                       *)
(***************************************************************************)
\* The f64 1.0 in ten-thousandths.
One == 10000

\* The f64 0.001 in ten-thousandths.
Milli == One \div 1000

f64_abs(v) == IF v < 0 THEN -v ELSE v

\* f64::round of a count of halves of thousandths, away from zero at a half.
f64_round(v) ==
    IF ~f64_is_finite(v) THEN v
    ELSE LET k == (2 * f64_abs(v) + Milli) \div (2 * Milli)
         IN  IF v < 0 THEN -k ELSE k

\* The closure of Rotation::round, truncating instead of rounding.
round_component_trunc(v) ==
    IF ~f64_is_finite(v) THEN v
    ELSE IF v < 0 THEN -((-v) \div Milli) * Milli ELSE (v \div Milli) * Milli

\* The closure of Rotation::round: (v * 1000.0).round() / 1000.0
round_component(v) == IF ~f64_is_finite(v) THEN v ELSE f64_round(v) * Milli

\* The % of f64: the remainder has the sign of the dividend; that of NaN and of an
\* infinity is NaN.
f64_rem(v, m) ==
    IF ~f64_is_finite(v) THEN NaN
    ELSE IF v < 0 THEN -((-v) % m) ELSE v % m

\* The closure of Rotation::normalize.
normalize_component(v) ==
    LET a == f64_rem(v, One)
    IN  IF a = NaN THEN NaN ELSE f64_rem(a + One, One)

(***************************************************************************)
(* f64, bit for bit.  A finite f64 v with |v| < 4 that is a multiple of    *)
(* 2^-56 is the record F64(neg, hi, lo) with |v| = (hi * 2^28 + lo) * 2^-56 *)
(* (every f64 of magnitude 2^-4 or more is such a multiple, and so are the *)
(* sums and remainders below); 1.0 is F64(FALSE, 2^28, 0).                 *)
(***************************************************************************)
Limb == 2^28

F64(neg, hi, lo) == [kind |-> "finite", neg |-> neg, hi |-> hi, lo |-> lo]
F64NaN == [kind |-> "nan", neg |-> FALSE, hi |-> 0, lo |-> 0]
F64Inf(neg) == [kind |-> "inf", neg |-> neg, hi |-> 0, lo |-> 0]

\* `v % 1.0`: the remainder is exact and has the sign of v; that of NaN and of
\* an infinity is NaN.
F64_rem_one(v) ==
    IF v.kind # "finite" THEN F64NaN ELSE [v EXCEPT !.hi = @ % Limb]

\* The distance between two neighbouring f64 at a magnitude, in units of 2^-56:
\* 2^-52 in [1, 2), 2^-53 in [0.5, 1), and so on.
F64_spacing(hi) ==
    IF hi >= Limb THEN 16
    ELSE IF hi >= Limb \div 2 THEN 8
    ELSE IF hi >= Limb \div 4 THEN 4
    ELSE IF hi >= Limb \div 8 THEN 2
    ELSE 1

\* Rounding of an exact result to the nearest f64, to the even one at a tie.
F64_round_even(hi, lo) ==
    LET step == F64_spacing(hi)
        r == lo % step
        down == lo - r
        up == 2 * r > step \/ (2 * r = step /\ (down \div step) % 2 = 1)
    IN  IF ~up THEN F64(FALSE, hi, down)
        ELSE IF down + step = Limb THEN F64(FALSE, hi + 1, 0)
        ELSE F64(FALSE, hi, down + step)

\* `a += 1.0` for |a| < 1: the exact sum, rounded.
F64_add_one(a) ==
    IF a.kind # "finite" THEN F64NaN
    ELSE IF ~a.neg \/ (a.hi = 0 /\ a.lo = 0) THEN F64_round_even(a.hi + Limb, a.lo)
    ELSE IF a.lo = 0 THEN F64_round_even(Limb - a.hi, 0)
    ELSE F64_round_even(Limb - a.hi - 1, Limb - a.lo)

\* The closure of Rotation::normalize without `a += 1.0`.
normalize_closure_rem_only(v) == F64_rem_one(F64_rem_one(v))

\* The closure of Rotation::normalize: a = v % 1.0; a += 1.0; a % 1.0
normalize_closure(v) == F64_rem_one(F64_add_one(F64_rem_one(v)))

\* Rotation::normalize: Point3D::map applies the closure to x, y and z.
Rotation_normalize_f64(rot) ==
    [x |-> normalize_closure(rot.x), y |-> normalize_closure(rot.y),
     z |-> normalize_closure(rot.z)]

\* Point3D::map applies the closure to x, y and z.
Rotation_round(rot) ==
    [x |-> round_component(rot.x), y |-> round_component(rot.y),
     z |-> round_component(rot.z)]

Rotation_normalize(rot) ==
    [x |-> normalize_component(rot.x), y |-> normalize_component(rot.y),
     z |-> normalize_component(rot.z)]

\* equal_rotation without the normalize step.
Rotation_equal_rotation_round_only(self, other) ==
    Point3D_eq(Rotation_round(self), Rotation_round(other))

Rotation_equal_rotation(self, other) ==
    LET left == Rotation_round(Rotation_normalize(Rotation_round(self)))
        right == Rotation_round(Rotation_normalize(Rotation_round(other)))
    IN  Point3D_eq(left, right)

(***************************************************************************)
(* Numbers as text.  Display of usize and of f64 (Rust prints the shortest *)
(* decimal that reads back as the same f64: 1.0 is "1", 0.5 is "0.5").     *)
(***************************************************************************)
Digits == <<"0", "1", "2", "3", "4", "5", "6", "7", "8", "9">>

RECURSIVE usize_to_string(_)
usize_to_string(n) ==
    IF n < 10 THEN <<Digits[n + 1]>>
    ELSE usize_to_string(n \div 10) \o <<Digits[(n % 10) + 1]>>

RECURSIVE StripZeros(_)
StripZeros(ds) ==
    IF ds # <<>> /\ ds[Len(ds)] = "0" THEN StripZeros(SubSeq(ds, 1, Len(ds) - 1)) ELSE ds

\* The decimals of a fraction counted in ten-thousandths.
FracDigits(fp) ==
    StripZeros(<<Digits[(fp \div 1000) + 1], Digits[((fp \div 100) % 10) + 1],
                 Digits[((fp \div 10) % 10) + 1], Digits[(fp % 10) + 1]>>)

\* The number written without its sign.
f64_to_string_unsigned(v) ==
    IF v = NaN THEN <<"N", "a", "N">>
    ELSE usize_to_string(f64_abs(v) \div One)
            \o (IF f64_abs(v) % One = 0 THEN <<>>
                ELSE <<".">> \o FracDigits(f64_abs(v) % One))

f64_to_string(v) ==
    IF v = NaN THEN <<"N", "a", "N">>
    ELSE (IF v < 0 THEN <<"-">> ELSE <<>>)
            \o usize_to_string(f64_abs(v) \div One)
            \o (IF f64_abs(v) % One = 0 THEN <<>>
                ELSE <<".">> \o FracDigits(f64_abs(v) % One))

\* i32 Display.
i32_to_string(n) == IF n < 0 THEN <<"-">> \o usize_to_string(-n) ELSE usize_to_string(n)

(***************************************************************************)
(* Lua values, as rlua hands them to the decoders: nil, integer, number    *)
(* (f64, in ten-thousandths), string, or table.  A table has a positional  *)
(* part (seq, the values at keys 1, 2, ...) and named fields in the order  *)
(* in which pairs() visits them.                                          *)
(***************************************************************************)
LuaValue(t, n, s, seq, named) == [t |-> t, n |-> n, s |-> s, seq |-> seq, named |-> named]
LuaNil == LuaValue("nil", 0, <<>>, <<>>, <<>>)
LuaInteger(n) == LuaValue("integer", n, <<>>, <<>>, <<>>)
LuaNumber(v) == LuaValue("number", v, <<>>, <<>>, <<>>)
LuaString(s) == LuaValue("string", 0, s, <<>>, <<>>)
LuaTable(seq, named) == LuaValue("table", 0, <<>>, seq, named)
LuaField(key, val) == [key |-> key, val |-> val]

\* The error of a failed rlua conversion.
LuaError == <<"Lua", "FromLuaConversionError">>

\* Table::sequence_values: the values at 1, 2, ... up to the first nil.
RECURSIVE sequence_values(_)
sequence_values(seq) ==
    IF seq = <<>> \/ Head(seq).t = "nil" THEN <<>>
    ELSE <<Head(seq)>> \o sequence_values(Tail(seq))

\* usize::from_lua: a non-negative integer (a number only when it is whole).
usize_from_lua(v) ==
    IF v.t = "integer" /\ v.n >= 0 THEN Ok(v.n)
    ELSE IF v.t = "number" /\ v.n # NaN /\ v.n >= 0 /\ v.n % One = 0 THEN Ok(v.n \div One)
    ELSE Err(LuaError)

\* f64::from_lua: an integer or a number.
f64_from_lua(v) ==
    IF v.t = "integer" THEN Ok(v.n * One)
    ELSE IF v.t = "number" THEN Ok(v.n)
    ELSE Err(LuaError)

(***************************************************************************)
(* The Lua evaluation of a table constructor, as far as the decoders use   *)
(* it: tables with positional and named fields, decimal numbers, quoted    *)
(* strings, true, false and nil, and names of globals (all undefined:      *)
(* nil).  A parse is [ok, val, pos]: the value and the position after it.  *)
(***************************************************************************)
Letters ==
    {"a", "b", "c", "d", "e", "f", "g", "h", "i", "j", "k", "l", "m", "n", "o", "p", "q",
     "r", "s", "t", "u", "v", "w", "x", "y", "z", "A", "B", "C", "D", "E", "F", "G", "H",
     "I", "J", "K", "L", "M", "N", "O", "P", "Q", "R", "S", "T", "U", "V", "W", "X", "Y",
     "Z", "_"}
DigitChars == {"0", "1", "2", "3", "4", "5", "6", "7", "8", "9"}
Blank == {" ", "\n", "\t", "\r"}

LuaBoolean(b) == LuaValue("boolean", IF b THEN 1 ELSE 0, <<>>, <<>>, <<>>)
LuaSyntaxError == <<"Lua", "SyntaxError">>
LuaRuntimeError == <<"Lua", "RuntimeError">>
Parsed(val, pos) == [ok |-> TRUE, val |-> val, pos |-> pos]
Failed(err) == [ok |-> FALSE, err |-> err]

At(text, i) == IF i <= Len(text) THEN text[i] ELSE "eof"

RECURSIVE skip_blank(_, _)
skip_blank(text, i) == IF At(text, i) \in Blank THEN skip_blank(text, i + 1) ELSE i

\* The position after the run of characters of the set that starts at i.
RECURSIVE run_end(_, _, _)
run_end(text, i, set) == IF At(text, i) \in set THEN run_end(text, i + 1, set) ELSE i

DigitValue(ch) == CHOOSE d \in 0..9 : Digits[d + 1] = ch

RECURSIVE digits_value(_, _, _)
digits_value(text, i, j) ==
    IF i >= j THEN 0 ELSE digits_value(text, i, j - 1) * 10 + DigitValue(text[j - 1])

\* The decimals text[i..j-1] in ten-thousandths (four decimals are kept).
decimals_value(text, i, j) ==
    LET d(k) == IF i + k < j THEN DigitValue(text[i + k]) ELSE 0
    IN  d(0) * 1000 + d(1) * 100 + d(2) * 10 + d(3)

\* A numeral: digits, then optionally a point and digits.
lua_numeral(text, i) ==
    LET j == run_end(text, i, DigitChars)
    IN  IF At(text, j) = "."
        THEN LET k == run_end(text, j + 1, DigitChars)
             IN  IF j = i /\ k = j + 1 THEN Failed(LuaSyntaxError)
                 ELSE Parsed(LuaNumber(digits_value(text, i, j) * One
                                        + decimals_value(text, j + 1, k)), k)
        ELSE IF j = i THEN Failed(LuaSyntaxError)
        ELSE Parsed(LuaInteger(digits_value(text, i, j)), j)

\* A quoted string that starts at i; a backslash takes the next character as it
\* is (n as a line break); a line break ends the string unfinished.
RECURSIVE lua_string(_, _, _, _)
lua_string(text, i, quote, acc) ==
    LET ch == At(text, i)
    IN  IF ch = quote THEN Parsed(LuaString(acc), i + 1)
        ELSE IF ch \in {"eof", "\n", "\r"} THEN Failed(LuaSyntaxError)
        ELSE IF ch = "\\"
             THEN IF At(text, i + 1) \in {"\\", "'", "\""}
                  THEN lua_string(text, i + 2, quote, Append(acc, At(text, i + 1)))
                  ELSE IF At(text, i + 1) = "n"
                  THEN lua_string(text, i + 2, quote, Append(acc, "\n"))
                  ELSE Failed(LuaSyntaxError)
        ELSE lua_string(text, i + 1, quote, Append(acc, ch))

Name(text, i, j) == SubSeq(text, i, j - 1)

RECURSIVE lua_exp(_, _)
RECURSIVE lua_fields(_, _, _, _)

\* The fields of a table constructor from position i on, up to its closing brace.
lua_fields(text, i0, seq, named) ==
    LET i == skip_blank(text, i0)
        ch == At(text, i)
        j == run_end(text, i, Letters \cup DigitChars)
        eq == skip_blank(text, j)
        is_named == ch \in Letters /\ At(text, eq) = "=" /\ At(text, eq + 1) # "="
        field == IF is_named THEN lua_exp(text, eq + 1) ELSE lua_exp(text, i)
        after == skip_blank(text, field.pos)
        seq2 == IF is_named THEN seq ELSE Append(seq, field.val)
        others == SelectSeq(named, LAMBDA f : f.key # Name(text, i, j))
        named2 ==
            IF ~is_named THEN named
            ELSE IF field.val.t = "nil" THEN others
            ELSE Append(others, LuaField(Name(text, i, j), field.val))
    IN  IF ch = "}" THEN Parsed(LuaTable(seq, named), i + 1)
        ELSE IF ~field.ok THEN field
        ELSE IF At(text, after) \in {",", ";"} THEN lua_fields(text, after + 1, seq2, named2)
        ELSE IF At(text, after) = "}" THEN Parsed(LuaTable(seq2, named2), after + 1)
        ELSE Failed(LuaSyntaxError)

lua_exp(text, i0) ==
    LET i == skip_blank(text, i0)
        ch == At(text, i)
        j == run_end(text, i, Letters \cup DigitChars)
        word == Name(text, i, j)
    IN  CASE ch = "{" -> lua_fields(text, i + 1, <<>>, <<>>)
          [] ch \in {"'", "\""} -> lua_string(text, i + 1, ch, <<>>)
          [] ch \in DigitChars \cup {"."} -> lua_numeral(text, i)
          [] ch = "-" ->
                LET operand == lua_exp(text, i + 1)
                IN  IF ~operand.ok THEN operand
                    ELSE IF operand.val.t \in {"integer", "number"} /\ operand.val.n # NaN
                    THEN Parsed([operand.val EXCEPT !.n = -@], operand.pos)
                    ELSE Failed(LuaRuntimeError)
          [] ch \in Letters ->
                IF word = <<"t", "r", "u", "e">> THEN Parsed(LuaBoolean(TRUE), j)
                ELSE IF word = <<"f", "a", "l", "s", "e">> THEN Parsed(LuaBoolean(FALSE), j)
                ELSE Parsed(LuaNil, j)
          [] OTHER -> Failed(LuaSyntaxError)

\* ctx.load(text).eval::<Table>(): the text is one expression, and a table.
Lua_eval_table(text) ==
    LET exp == lua_exp(text, 1)
    IN  IF ~exp.ok THEN Err(exp.err)
        ELSE IF skip_blank(text, exp.pos) <= Len(text) THEN Err(LuaSyntaxError)
        ELSE IF exp.val.t # "table" THEN Err(LuaError)
        ELSE Ok(exp.val)

(***************************************************************************)
(* The Face codec  (src/src/assets/face.rs)                                *)
(***************************************************************************)
\* usize::MAX, the value `0 - 1` wraps to when overflow checks are off.  It is
\* above every length; the model writes it as -1.
USIZE_MAX == -1

\* The comparisons of f64: false when an operand is NaN.
f64_gt(a, b) == a # NaN /\ b # NaN /\ a > b
f64_ge(a, b) == a # NaN /\ b # NaN /\ a >= b

\* `(x * 8.0).round() as usize`: round is away from zero at a half, and the cast
\* saturates (NaN and negative values give 0, +infinity gives usize::MAX).
round_times8_as_usize(x) ==
    IF x = NaN \/ x = NegInf THEN 0
    ELSE IF x = Inf THEN USIZE_MAX
    ELSE IF x < 0 THEN 0
    ELSE (8 * x + One \div 2) \div One

\* `(x * 8.0) as usize`, without round: the cast truncates.
times8_as_usize(x) ==
    IF x = NaN \/ x = NegInf THEN 0
    ELSE IF x = Inf THEN USIZE_MAX
    ELSE IF x < 0 THEN 0
    ELSE (8 * x) \div One

\* Footer::read with the pixel found by truncation.
Footer_read_trunc(data, coords) ==
    IF \/ f64_gt(-625, coords.u)
       \/ f64_ge(coords.u, 159375)
       \/ f64_gt(-625, coords.v)
       \/ f64_ge(coords.v, 149375)
    THEN "Invalid"
    ELSE Footer_index(data, Point2D(times8_as_usize(coords.u), times8_as_usize(coords.v)))

\* Footer::read: -0.0625 is -625 ten-thousandths, 15.9375 is 159375 and 14.9375
\* is 149375.
Footer_read(data, coords) ==
    IF \/ f64_gt(-625, coords.u)
       \/ f64_ge(coords.u, 159375)
       \/ f64_gt(-625, coords.v)
       \/ f64_ge(coords.v, 149375)
    THEN "Invalid"
    ELSE Footer_index(data, Point2D(round_times8_as_usize(coords.u),
                                    round_times8_as_usize(coords.v)))

\* `seq_value - 1` on usize: with overflow checks (debug builds) 0 - 1 panics,
\* without them (release builds) it wraps.
usize_dec(n, overflow_checks) ==
    IF n > 0 THEN Ok(n - 1)
    ELSE IF overflow_checks THEN Panic ELSE Ok(USIZE_MAX)

\* `vertex_index + 1` on usize.
usize_inc(n, overflow_checks) ==
    IF n # USIZE_MAX THEN Ok(n + 1)
    ELSE IF overflow_checks THEN Panic ELSE Ok(0)

Face_default ==
    [double_sided |-> FALSE, no_shading |-> FALSE, render_priority |-> FALSE,
     no_texture |-> FALSE, color |-> "Black", uv_maps |-> <<>>]

\* The first loop of Face::try_from: one UVMap per value of the sequence, at
\* (0, 0); the first value that is no usize ends the decoding with its error.
RECURSIVE Face_indices(_, _, _)
Face_indices(values, uv_maps, overflow_checks) ==
    IF values = <<>> THEN Ok(uv_maps)
    ELSE LET seq_value == usize_from_lua(Head(values))
         IN  IF ~seq_value.ok THEN seq_value
             ELSE LET index == usize_dec(seq_value.val, overflow_checks)
                  IN  IF ~index.ok THEN index
                      ELSE Face_indices(Tail(values),
                               Append(uv_maps, UVMap_new(index.val, Point2D(0, 0))),
                               overflow_checks)

\* sequence_values::<f64>().map_while(|v| v.ok()): the numbers up to the first
\* value that is none.
RECURSIVE uv_chunks_of(_)
uv_chunks_of(values) ==
    IF values = <<>> \/ ~f64_from_lua(Head(values)).ok THEN <<>>
    ELSE <<f64_from_lua(Head(values)).val>> \o uv_chunks_of(Tail(values))

\* The "uv" arm without its length check.
Face_uv_arm_unchecked(face, value) ==
    IF value.t # "table" THEN Ok(face)
    ELSE LET uv_chunks == uv_chunks_of(sequence_values(value.seq))
         IN  Ok([face EXCEPT !.uv_maps =
                    [i \in 1..Len(face.uv_maps) |->
                        IF 2 * i <= Len(uv_chunks)
                        THEN [face.uv_maps[i] EXCEPT
                                 !.coords = Point2D(uv_chunks[2 * i - 1], uv_chunks[2 * i])]
                        ELSE face.uv_maps[i]]])

\* The "uv" arm: a table value sets the coordinates, pair by pair.
Face_uv_arm(face, value) ==
    IF value.t # "table" THEN Ok(face)
    ELSE LET uv_chunks == uv_chunks_of(sequence_values(value.seq))
         IN  IF Len(uv_chunks) # Len(face.uv_maps) * 2
             THEN Err(<<"FaceUVMapLength", Len(face.uv_maps), Len(uv_chunks)>>)
             ELSE Ok([face EXCEPT !.uv_maps =
                        [i \in 1..Len(face.uv_maps) |->
                            [face.uv_maps[i] EXCEPT
                                !.coords = Point2D(uv_chunks[2 * i - 1], uv_chunks[2 * i])]]])

\* The second loop with a flag set by a value of 1 rather than by its key.
RECURSIVE Face_pairs_by_value(_, _)
Face_pairs_by_value(face, named) ==
    IF named = <<>> THEN Ok(face)
    ELSE LET key == Head(named).key
             value == Head(named).val
             set == value.t = "integer" /\ value.n = 1
             next ==
                 CASE key = <<"d", "b", "l">> -> Ok([face EXCEPT !.double_sided = set])
                   [] key = <<"n", "o", "s", "h", "a", "d", "e">> -> Ok([face EXCEPT !.no_shading = set])
                   [] key = <<"n", "o", "t", "e", "x">> -> Ok([face EXCEPT !.no_texture = set])
                   [] key = <<"p", "r", "i", "o">> -> Ok([face EXCEPT !.render_priority = set])
                   [] key = <<"c">> ->
                        Ok([face EXCEPT !.color =
                               IF value.t = "integer" THEN from_i32(value.n) ELSE "Invalid"])
                   [] key = <<"u", "v">> -> Face_uv_arm(face, value)
                   [] OTHER -> Ok(face)
         IN  IF ~next.ok THEN next ELSE Face_pairs_by_value(next.val, Tail(named))

\* The second loop of Face::try_from, over the named fields.
RECURSIVE Face_pairs(_, _)
Face_pairs(face, named) ==
    IF named = <<>> THEN Ok(face)
    ELSE LET key == Head(named).key
             value == Head(named).val
             next ==
                 CASE key = <<"d", "b", "l">> -> Ok([face EXCEPT !.double_sided = TRUE])
                   [] key = <<"n", "o", "s", "h", "a", "d", "e">> -> Ok([face EXCEPT !.no_shading = TRUE])
                   [] key = <<"n", "o", "t", "e", "x">> -> Ok([face EXCEPT !.no_texture = TRUE])
                   [] key = <<"p", "r", "i", "o">> -> Ok([face EXCEPT !.render_priority = TRUE])
                   [] key = <<"c">> ->
                        Ok([face EXCEPT !.color =
                               IF value.t = "integer" THEN from_i32(value.n) ELSE "Invalid"])
                   [] key = <<"u", "v">> -> Face_uv_arm(face, value)
                   [] OTHER -> Ok(face)
         IN  IF ~next.ok THEN next ELSE Face_pairs(next.val, Tail(named))

\* The decoding with the wire index kept as it is.
Face_try_from_no_dec(value, overflow_checks) ==
    Face_pairs([Face_default EXCEPT
                   !.color = "Invalid",
                   !.uv_maps = [k \in 1..Len(sequence_values(value.seq)) |->
                                   UVMap_new(sequence_values(value.seq)[k].n, Point2D(0, 0))]],
               value.named)

\* impl TryFrom<Table> for Face
Face_try_from(value, overflow_checks) ==
    LET uv_maps == Face_indices(sequence_values(value.seq), <<>>, overflow_checks)
    IN  IF ~uv_maps.ok THEN uv_maps
        ELSE Face_pairs([Face_default EXCEPT !.color = "Invalid", !.uv_maps = uv_maps.val],
                        value.named)

\* Point2D Display: "{},{}"
Point2D_to_string(p) == f64_to_string(p.u) \o <<",">> \o f64_to_string(p.v)

\* trim_end_matches(',')
RECURSIVE trim_end_commas(_)
trim_end_commas(s) ==
    IF s # <<>> /\ s[Len(s)] = "," THEN trim_end_commas(SubSeq(s, 1, Len(s) - 1)) ELSE s

\* impl Display for Face.  The result is Ok(text), or the panic of
\* `vertex_index + 1`.
Face_to_string(face, overflow_checks) ==
    LET n == Len(face.uv_maps)
        wire == [k \in 1..n |-> usize_inc(face.uv_maps[k].vertex_index, overflow_checks)]
        vertex_indices ==
            Concat([k \in 1..n |-> usize_to_string(wire[k].val) \o <<",">>])
        uvs == Concat([k \in 1..n |-> Point2D_to_string(face.uv_maps[k].coords) \o <<",">>])
        attributes ==
            (IF face.double_sided THEN <<"d", "b", "l", "=", "1", ",", " ">> ELSE <<>>)
            \o (IF face.no_shading
                THEN <<"n", "o", "s", "h", "a", "d", "e", "=", "1", ",", " ">> ELSE <<>>)
            \o (IF face.no_texture
                THEN <<"n", "o", "t", "e", "x", "=", "1", ",", " ">> ELSE <<>>)
            \o (IF face.render_priority
                THEN <<"p", "r", "i", "o", "=", "1", ",", " ">> ELSE <<>>)
    IN  IF \E k \in 1..n : ~wire[k].ok THEN Panic
        ELSE Ok(<<"{">> \o vertex_indices \o <<" ", "c", "=">>
                    \o i32_to_string(as_i32(face.color)) \o <<",", " ">> \o attributes
                    \o <<"u", "v", "=", "{">> \o trim_end_commas(uvs) \o <<"}", " ", "}">>)

(***************************************************************************)
(* The Header codec  (src/src/assets/header.rs)                            *)
(***************************************************************************)
\* str::trim: white space off both ends.
RECURSIVE trim(_)
trim(s) ==
    IF s # <<>> /\ Head(s) \in Blank THEN trim(Tail(s))
    ELSE IF s # <<>> /\ s[Len(s)] \in Blank THEN trim(SubSeq(s, 1, Len(s) - 1))
    ELSE s

\* The position of the first `sep` of s at or after i, or 0.
find(s, sep, i) ==
    LET hits == {k \in i..Len(s) : s[k] = sep}
    IN  IF hits = {} THEN 0 ELSE CHOOSE k \in hits : \A j \in hits : k <= j

\* The position of the last `sep` of s at or before i, or 0.
rfind(s, sep, i) ==
    LET hits == {k \in 1..i : s[k] = sep}
    IN  IF hits = {} THEN 0 ELSE CHOOSE k \in hits : \A j \in hits : k >= j

\* str::splitn(n, sep): at most n pieces, the last one holding the rest.
RECURSIVE splitn(_, _, _)
splitn(s, n, sep) ==
    LET at == find(s, sep, 1)
    IN  IF n = 1 \/ at = 0 THEN <<s>>
        ELSE <<SubSeq(s, 1, at - 1)>> \o splitn(SubSeq(s, at + 1, Len(s)), n - 1, sep)

RECURSIVE strip_zeros(_)
strip_zeros(ds) == IF Len(ds) > 1 /\ Head(ds) = "0" THEN strip_zeros(Tail(ds)) ELSE ds

\* Digit strings of one length compare as their numbers, place by place.
RECURSIVE digits_le(_, _)
digits_le(a, b) ==
    IF a = <<>> THEN TRUE
    ELSE IF Head(a) # Head(b) THEN DigitValue(Head(a)) < DigitValue(Head(b))
    ELSE digits_le(Tail(a), Tail(b))

I32MaxDigits == <<"2", "1", "4", "7", "4", "8", "3", "6", "4", "7">>

\* str::parse::<i32>: an optional sign and digits, within the range of i32.
parse_i32(s) ==
    LET signed == s # <<>> /\ Head(s) \in {"+", "-"}
        digits == IF signed THEN Tail(s) ELSE s
        ds == strip_zeros(digits)
        fits == Len(ds) < 10 \/ (Len(ds) = 10 /\ digits_le(ds, I32MaxDigits))
        value == digits_value(ds, 1, Len(ds) + 1)
    IN  IF digits = <<>> \/ \E k \in 1..Len(digits) : digits[k] \notin DigitChars
        THEN Err("ParseIntError")
        ELSE IF signed /\ Head(s) = "-"
        THEN IF fits THEN Ok(-value)
             ELSE IF ds = <<"2", "1", "4", "7", "4", "8", "3", "6", "4", "8">> THEN Ok(I32Min)
             ELSE Err("ParseIntError")
        ELSE IF fits THEN Ok(value) ELSE Err("ParseIntError")

\* str::parse::<u8>: an optional + and digits, at most 255.
parse_u8(s) ==
    LET digits == IF s # <<>> /\ Head(s) = "+" THEN Tail(s) ELSE s
        ds == strip_zeros(digits)
    IN  IF digits = <<>> \/ \E k \in 1..Len(digits) : digits[k] \notin DigitChars
        THEN Err("ParseIntError")
        ELSE IF Len(ds) > 3 \/ digits_value(ds, 1, Len(ds) + 1) > 255 THEN Err("ParseIntError")
        ELSE Ok(digits_value(ds, 1, Len(ds) + 1))

picocad == <<"p", "i", "c", "o", "c", "a", "d">>

\* Header::from_str with the background parsed before the zoom.
Header_from_str_background_first(s) ==
    LET fields == splitn(trim(s), 5, ";")
        zoom == parse_u8(fields[3])
        background == parse_i32(fields[4])
        alpha == parse_i32(fields[5])
    IN  IF Len(fields) # 5 THEN Err(<<"HeaderLength", Len(fields)>>)
        ELSE IF fields[1] # picocad THEN Err(<<"Identifier">>)
        ELSE IF ~background.ok THEN Err(<<"HeaderField", "background">>)
        ELSE IF ~zoom.ok THEN Err(<<"HeaderField", "zoom">>)
        ELSE IF ~alpha.ok THEN Err(<<"HeaderField", "alpha">>)
        ELSE Ok([identifier |-> fields[1], name |-> fields[2], zoom |-> zoom.val,
                 background |-> from_i32(background.val), alpha |-> from_i32(alpha.val)])

\* impl FromStr for Header
Header_from_str(s) ==
    LET fields == splitn(trim(s), 5, ";")
        zoom == parse_u8(fields[3])
        background == parse_i32(fields[4])
        alpha == parse_i32(fields[5])
    IN  IF Len(fields) # 5 THEN Err(<<"HeaderLength", Len(fields)>>)
        ELSE IF fields[1] # picocad THEN Err(<<"Identifier">>)
        ELSE IF ~zoom.ok THEN Err(<<"HeaderField", "zoom">>)
        ELSE IF ~background.ok THEN Err(<<"HeaderField", "background">>)
        ELSE IF ~alpha.ok THEN Err(<<"HeaderField", "alpha">>)
        ELSE Ok([identifier |-> fields[1], name |-> fields[2], zoom |-> zoom.val,
                 background |-> from_i32(background.val), alpha |-> from_i32(alpha.val)])

\* impl Display for Header
Header_to_string(header) ==
    picocad \o <<";">> \o header.name \o <<";">> \o usize_to_string(header.zoom) \o <<";">>
        \o i32_to_string(as_i32(header.background)) \o <<";">>
        \o i32_to_string(as_i32(header.alpha))

(***************************************************************************)
(* The Mesh codec  (src/src/assets/point.rs, src/src/assets/mesh.rs)       *)
(***************************************************************************)
\* impl TryFrom<Table> for Point3D<f64>
Point3D_try_from(value) ==
    LET coords_result == [k \in 1..Len(sequence_values(value.seq)) |->
                             f64_from_lua(sequence_values(value.seq)[k])]
    IN  IF Len(coords_result) # 3 THEN Err(<<"TableLength", Len(coords_result), 3>>)
        ELSE IF \E k \in 1..3 : ~coords_result[k].ok THEN Err(LuaError)
        ELSE Ok(Point3D(coords_result[1].val, coords_result[2].val, coords_result[3].val))

\* impl Display for Point3D
Point3D_to_string(p) ==
    f64_to_string(p.x) \o <<",">> \o f64_to_string(p.y) \o <<",">> \o f64_to_string(p.z)

\* The loop of the "v" arm: every value a table that is a point.
RECURSIVE Mesh_vertices_arm(_, _)
Mesh_vertices_arm(values, vertices) ==
    IF values = <<>> THEN Ok(vertices)
    ELSE IF Head(values).t # "table" THEN Err(LuaError)
    ELSE LET point == Point3D_try_from(Head(values))
         IN  IF ~point.ok THEN point
             ELSE Mesh_vertices_arm(Tail(values), Append(vertices, point.val))

\* The loop of the "f" arm: every value a table that is a face.
RECURSIVE Mesh_faces_arm(_, _, _)
Mesh_faces_arm(values, faces, overflow_checks) ==
    IF values = <<>> THEN Ok(faces)
    ELSE IF Head(values).t # "table" THEN Err(LuaError)
    ELSE LET face == Face_try_from(Head(values), overflow_checks)
         IN  IF ~face.ok THEN face
             ELSE Mesh_faces_arm(Tail(values), Append(faces, face.val), overflow_checks)

\* A field set from a decoded value, or the error of the decoding.
Mesh_with(mesh, field, decoded) ==
    IF ~decoded.ok THEN decoded ELSE Ok([mesh EXCEPT ![field] = decoded.val])

\* The loop of Mesh::try_from over the named fields.
RECURSIVE Mesh_pairs(_, _, _)
Mesh_pairs(mesh, named, overflow_checks) ==
    IF named = <<>> THEN Ok(mesh)
    ELSE LET key == Head(named).key
             value == Head(named).val
             next ==
                 CASE key = <<"n", "a", "m", "e">> ->
                        IF value.t = "string" THEN Ok([mesh EXCEPT !.name = value.s])
                        ELSE Err(<<"MeshField", "name">>)
                   [] key = <<"p", "o", "s">> ->
                        IF value.t = "table"
                        THEN Mesh_with(mesh, "position", Point3D_try_from(value))
                        ELSE Err(<<"MeshField", "pos">>)
                   [] key = <<"r", "o", "t">> ->
                        IF value.t = "table"
                        THEN Mesh_with(mesh, "rotation", Point3D_try_from(value))
                        ELSE Err(<<"MeshField", "rot">>)
                   [] key = <<"v">> ->
                        IF value.t = "table"
                        THEN Mesh_with(mesh, "vertices",
                                 Mesh_vertices_arm(sequence_values(value.seq), mesh.vertices))
                        ELSE Err(<<"MeshField", "rot">>)
                   [] key = <<"f">> ->
                        IF value.t = "table"
                        THEN Mesh_with(mesh, "faces",
                                 Mesh_faces_arm(sequence_values(value.seq), mesh.faces,
                                                overflow_checks))
                        ELSE Err(<<"MeshField", "rot">>)
                   [] OTHER -> Ok(mesh)
         IN  IF ~next.ok THEN next ELSE Mesh_pairs(next.val, Tail(named), overflow_checks)

\* impl TryFrom<Table> for Mesh
Mesh_try_from(value, overflow_checks) ==
    Mesh_pairs([name |-> <<>>, position |-> Point3D(0, 0, 0), rotation |-> Point3D(0, 0, 0),
                vertices |-> <<>>, faces |-> <<>>],
               value.named, overflow_checks)

\* Mesh::new
Mesh_new(name) ==
    [name |-> name, position |-> Point3D(0, 0, 0), rotation |-> Point3D(0, 0, 0),
     vertices |-> <<>>, faces |-> <<>>]

\* impl FromStr for Mesh: the Ok(Mesh::new("mesh")) it starts from is replaced by
\* the result of Mesh::try_from or by the error of the evaluation.
Mesh_from_str(s, overflow_checks) ==
    LET mesh == Ok(Mesh_new(<<"m", "e", "s", "h">>))
        table_result == Lua_eval_table(s)
    IN  IF table_result.ok THEN Mesh_try_from(table_result.val, overflow_checks)
        ELSE Err(table_result.err)

\* The lines of a list of texts: two blanks before each, ",\n" between them.
Mesh_lines(texts) ==
    Concat([i \in 1..Len(texts) |->
               <<" ", " ">> \o texts[i] \o (IF i < Len(texts) THEN <<",", "\n">> ELSE <<>>)])

\* impl Display for Mesh.  Ok(text), or the panic of writing a face.
Mesh_to_string(mesh, overflow_checks) ==
    LET faces == [i \in 1..Len(mesh.faces) |-> Face_to_string(mesh.faces[i], overflow_checks)]
        v == Mesh_lines([i \in 1..Len(mesh.vertices) |->
                            <<"{">> \o Point3D_to_string(mesh.vertices[i]) \o <<"}">>])
        f == Mesh_lines([i \in 1..Len(faces) |-> faces[i].val])
    IN  IF \E i \in 1..Len(faces) : ~faces[i].ok THEN Panic
        ELSE Ok(<<"{", "\n", " ", "n", "a", "m", "e", "=", "'">> \o mesh.name \o <<"'", ",", " ", "p", "o", "s", "=", "{">>
                    \o Point3D_to_string(mesh.position) \o <<"}", ",", " ", "r", "o", "t", "=", "{">>
                    \o Point3D_to_string(mesh.rotation) \o <<"}", ",", "\n", " ", "v", "=", "{", "\n">>
                    \o v \o <<"\n", " ", "}", ",", "\n", " ", "f", "=", "{", "\n">> \o f \o <<"\n", " ", "}", "\n", "}">>)

(***************************************************************************)
(* The Model codec  (src/src/assets/model.rs)                              *)
(***************************************************************************)
\* The split with the footer taken after the first '%' of the rest.
seperate_model_first_percent(model) ==
    LET nl == find(model, "\n", 1)
        rest == SubSeq(model, nl + 1, Len(model))
        pc == find(rest, "%", 1)
    IN  IF nl = 0 THEN Err(<<"Split", "seperate header from meshes with '\\n'">>)
        ELSE IF pc = 0 THEN Err(<<"Split", "seperate meshes from footer with '%'">>)
        ELSE Ok(<<SubSeq(model, 1, nl - 1), SubSeq(rest, 1, pc - 1),
                  SubSeq(rest, pc + 1, Len(rest))>>)

\* seperate_model: the header up to the first '\n', the footer after the last
\* '%' of the rest, the meshes between them.
seperate_model(model) ==
    LET nl == find(model, "\n", 1)
        rest == SubSeq(model, nl + 1, Len(model))
        pc == rfind(rest, "%", Len(rest))
    IN  IF nl = 0 THEN Err(<<"Split", "seperate header from meshes with '\\n'">>)
        ELSE IF pc = 0 THEN Err(<<"Split", "seperate meshes from footer with '%'">>)
        ELSE Ok(<<SubSeq(model, 1, nl - 1), SubSeq(rest, 1, pc - 1),
                  SubSeq(rest, pc + 1, Len(rest))>>)

\* The loop over the mesh tables: the first error ends it.
RECURSIVE Model_meshes(_, _, _)
Model_meshes(values, meshes, overflow_checks) ==
    IF values = <<>> THEN Ok(meshes)
    ELSE IF Head(values).t # "table" THEN Err(LuaError)
    ELSE LET mesh == Mesh_try_from(Head(values), overflow_checks)
         IN  IF ~mesh.ok THEN mesh
             ELSE Model_meshes(Tail(values), Append(meshes, mesh.val), overflow_checks)

\* impl FromStr for Model
Model_from_str(s, overflow_checks) ==
    LET parts == seperate_model(s)
        header == Header_from_str(parts.val[1])
        footer_data == Footer_from_str(parts.val[3])
        meshes_table == Lua_eval_table(parts.val[2])
        meshes == Model_meshes(sequence_values(meshes_table.val.seq), <<>>, overflow_checks)
    IN  IF ~parts.ok THEN parts
        ELSE IF ~header.ok THEN header
        ELSE IF ~footer_data.ok THEN footer_data
        ELSE IF ~meshes_table.ok THEN meshes_table
        ELSE IF ~meshes.ok THEN meshes
        ELSE Ok([header |-> header.val, meshes |-> meshes.val, footer |-> footer_data.val])

\* impl Display for Model.  Ok(text), or the panic of writing a face.
\* Model::fmt with the meshes on lines of their own, joined by a comma and a
\* line break.
Model_to_string_lines(model, overflow_checks) ==
    LET texts == [i \in 1..Len(model.meshes) |->
                     Mesh_to_string(model.meshes[i], overflow_checks)]
        meshes == Concat([i \in 1..Len(texts) |->
                     texts[i].val \o (IF i < Len(texts) THEN <<",", "\n">> ELSE <<>>)])
    IN  IF \E i \in 1..Len(texts) : ~texts[i].ok THEN Panic
        ELSE Ok(Header_to_string(model.header) \o <<"\n", "{", "\n">> \o meshes
                    \o <<"\n", "}", "%", "\n">> \o Footer_to_string(model.footer))

Model_to_string(model, overflow_checks) ==
    LET texts == [i \in 1..Len(model.meshes) |->
                     Mesh_to_string(model.meshes[i], overflow_checks)]
        meshes == Concat([i \in 1..Len(texts) |-> texts[i].val \o <<",">>])
    IN  IF \E i \in 1..Len(texts) : ~texts[i].ok THEN Panic
        ELSE Ok(Header_to_string(model.header) \o <<"\n", "{", "\n">>
                    \o trim_end_commas(trim_end_commas(meshes))
                    \o <<"\n", "}", "%", "\n">> \o Footer_to_string(model.footer))

\* The derived PartialEq of the Model and of what it holds (f64 fields by ==).
Point2D_eq(a, b) == f64_eq(a.u, b.u) /\ f64_eq(a.v, b.v)

UVMap_eq(a, b) == a.vertex_index = b.vertex_index /\ Point2D_eq(a.coords, b.coords)

Face_eq(a, b) ==
    /\ a.double_sided = b.double_sided
    /\ a.no_shading = b.no_shading
    /\ a.render_priority = b.render_priority
    /\ a.no_texture = b.no_texture
    /\ a.color = b.color
    /\ Len(a.uv_maps) = Len(b.uv_maps)
    /\ \A k \in 1..Len(a.uv_maps) : UVMap_eq(a.uv_maps[k], b.uv_maps[k])

Mesh_eq(a, b) ==
    /\ a.name = b.name
    /\ Point3D_eq(a.position, b.position)
    /\ Point3D_eq(a.rotation, b.rotation)
    /\ Len(a.vertices) = Len(b.vertices)
    /\ \A k \in 1..Len(a.vertices) : Point3D_eq(a.vertices[k], b.vertices[k])
    /\ Len(a.faces) = Len(b.faces)
    /\ \A k \in 1..Len(a.faces) : Face_eq(a.faces[k], b.faces[k])

Model_eq(a, b) ==
    /\ a.header = b.header
    /\ Len(a.meshes) = Len(b.meshes)
    /\ \A k \in 1..Len(a.meshes) : Mesh_eq(a.meshes[k], b.meshes[k])
    /\ a.footer = b.footer

(***************************************************************************)
(* Inputs of the geometry specifications.                                  *)
(***************************************************************************)
pA == Point3D(0, 0, 0)
pB == Point3D(One, 0, 0)
pC == Point3D(0, One, 0)
pN == Point3D(NaN, 0, 0)
Points == {pA, pB, pC, pN}
Edges == {Edge_new(s, e) : s \in Points, e \in Points}

\* Vertex lists: distinct points, a repeated point, a NaN coordinate; index 2
\* is out of range for the first.
VertexLists == {<<pA, pB>>, <<pA, pB, pC>>, <<pA, pA, pB>>, <<pA, pN, pB>>}
VertexIndices == {0, 1, 2}

\* A face with the given 0-based vertex indices (its other fields as Face::default).
FaceOf(indices) ==
    [double_sided |-> FALSE, no_shading |-> FALSE, render_priority |-> FALSE,
     no_texture |-> FALSE, color |-> "Black",
     uv_maps |-> [k \in 1..Len(indices) |-> UVMap_new(indices[k], Point2D(0, 0))]]

\* Lists of at most n faces holding at most `budget` vertex indices together
\* (faces of no index and of two or more).
MaxFaces == 2
MaxEntries == 5
RECURSIVE FaceLists(_, _)
FaceLists(n, budget) ==
    IF n = 0 THEN {<<>>}
    ELSE {<<>>} \cup
         UNION {{<<FaceOf(ix)>> \o rest : rest \in FaceLists(n - 1, budget - Len(ix))} :
                ix \in {s \in SeqsUpTo(VertexIndices, budget) : Len(s) # 1}}

Meshes ==
    [name : {<<"m">>}, position : {pA}, rotation : {pA},
     vertices : VertexLists, faces : FaceLists(MaxFaces, MaxEntries)]

\* Rotation components: the multiples of 0.0001 up to MaxTurns turns either way
\* whose f64 is exact under round and normalize: not half-way between two
\* thousandths, or a multiple of 1/16 (a binary fraction).
MaxTurns == 2
RotValues ==
    {u \in (-MaxTurns * One)..(MaxTurns * One) : u % 10 # 5 \/ u % 625 = 0}
Rotations == [x : RotValues, y : {One, -625}, z : {0, One - 4}]

\* Face tables.  The positional part: every list of at most MaxIndices wire
\* indices in 0..MaxWire (0 is below the 1-based range), the list 4,3,2,1, and
\* lists with a negative index and with a string.
MaxWire == 3
MaxIndices == 3
WireLists ==
    {[k \in DOMAIN ix |-> LuaInteger(ix[k])] : ix \in SeqsUpTo(0..MaxWire, MaxIndices)}
        \cup {<<LuaInteger(4), LuaInteger(3), LuaInteger(2), LuaInteger(1)>>,
              <<LuaInteger(1), LuaInteger(-1)>>,
              <<LuaInteger(2), LuaString(<<"x">>), LuaInteger(1)>>}

\* The j-th uv number of the inputs: all different, j/16.
UvNumber(j) == LuaNumber(j * 625)

\* The uv field: absent (nil), a table of k numbers, a table with a string in
\* third place, a table of integers, or a value that is no table.
UvFields ==
    {LuaNil, LuaInteger(1),
     LuaTable(<<UvNumber(1), UvNumber(2), LuaString(<<"x">>), UvNumber(4)>>, <<>>),
     LuaTable(<<LuaInteger(0), LuaInteger(1), LuaInteger(1), LuaInteger(0)>>, <<>>)}
        \cup {LuaTable([j \in 1..k |-> UvNumber(j)], <<>>) : k \in 0..(2 * MaxIndices + 2)}

\* The c field: absent, a palette code, a code outside the palette.
ColorFields == {LuaNil, LuaInteger(10), LuaInteger(16)}

\* The named fields that are there, in the order c, dbl, uv.
NamedFields(c, dbl, uv) ==
    SelectSeq(<<LuaField(<<"c">>, c), LuaField(<<"d", "b", "l">>, dbl),
                LuaField(<<"u", "v">>, uv)>>,
              LAMBDA f : f.val.t # "nil")

FaceTables ==
    {LuaTable(seq, NamedFields(c, dbl, uv)) :
        seq \in WireLists, c \in ColorFields, dbl \in {LuaNil, LuaInteger(0)}, uv \in UvFields}

\* Documents.  A mesh literal in the layout of a picoCAD file, with the name
\* literal, the first wire index of its face and the colour field as given
\* (an empty text: the field is left out).
MeshText(d) ==
    <<"{", " ">>
        \o (IF d.name = <<>> THEN <<>> ELSE <<"n", "a", "m", "e", "=">> \o d.name \o <<",", " ">>)
        \o <<"p", "o", "s", "=", "{", "0", ",", "0", ",", "0", "}", ",", " ", "r", "o", "t",
          "=", "{", "0", ",", "0", ".", "2", "5", ",", "0", "}", ",", " ", "v", "=", "{",
          " ", "{", "-", "0", ".", "5", ",", "-", "0", ".", "5", ",", "-", "0", ".", "5",
          "}", ",", "{", "0", ".", "5", ",", "-", "0", ".", "5", ",", "-", "0", ".", "5",
          "}", " ", "}", ",", " ", "f", "=", "{", " ", "{">>
        \o d.first \o <<",", "2", ",", " ">>
        \o (IF d.c = <<>> THEN <<>> ELSE <<"c", "=">> \o d.c \o <<",", " ">>)
        \o <<"d", "b", "l", "=", "1", ",", " ", "u", "v", "=", "{", "0", ",", "0", ",", "1", ",", "0", ".", "5", "}", " ", "}", " ", "}", " ", "}">>

\* Name literals: none, 'cube', 'a%b', and "it's" in double quotes.
NameLiterals ==
    {<<>>, <<"'", "c", "u", "b", "e", "'">>, <<"'", "a", "%", "b", "'">>,
     <<"\"", "i", "t", "'", "s", "\"">>}

MeshDescs == [name : NameLiterals, first : {<<"1">>, <<"0">>}, c : {<<>>, <<"1", "1">>, <<"1", "6">>}]

BaseMesh == [name |-> <<"'", "c", "u", "b", "e", "'">>, first |-> <<"1">>, c |-> <<"1", "1">>]

\* Mesh lists of at most MaxMeshes meshes: base meshes, then any mesh.
MaxMeshes == 2
MeshLists ==
    {<<>>} \cup {[i \in 1..n |-> IF i < n THEN BaseMesh ELSE d] :
                    n \in 1..MaxMeshes, d \in MeshDescs}

\* Header lines: the default header, and one with colour codes outside the palette.
BaseHeader == <<"p", "i", "c", "o", "c", "a", "d", ";", "u", "n", "n", "a", "m", "e", "d", ";",
      "1", "6", ";", "1", ";", "0">>
HeaderLines ==
    {BaseHeader,
     <<"p", "i", "c", "o", "c", "a", "d", ";", "m", "y", " ", "m", "o", "d", "e", "l",
       ";", "2", "5", "5", ";", "1", "6", ";", "-", "1">>}

\* Footers: 120 lines of 128 characters '0', the first one 0, d or (no colour) x.
BaseFooter == [lines |-> 120, width |-> 128, sep |-> <<"\n">>, fill |-> "0", mark |-> "0", at |-> 1]
DocFooters == {[BaseFooter EXCEPT !.mark = mk] : mk \in {"0", "d", "x"}}

Documents ==
    [header : HeaderLines, meshes : {<<BaseMesh>>}, footer : DocFooters]
        \cup [header : {BaseHeader}, meshes : MeshLists, footer : {BaseFooter}]

DocText(d) ==
    d.header \o <<"\n", "{", "\n">>
        \o Concat([i \in 1..Len(d.meshes) |->
                      MeshText(d.meshes[i])
                          \o (IF i < Len(d.meshes) THEN <<",", "\n">> ELSE <<>>)])
        \o <<"\n", "}", "%", "\n">> \o FooterText(d.footer)

(***************************************************************************)
(* Specifications                                                          *)
(***************************************************************************)
\* The specifications of the other components hold no footer.
NoFooter == footer = <<>> /\ nsets = 0

InitColor ==
    /\ op = "init"
    /\ arg \in Codes
    /\ ret = None
    /\ NoFooter

ColorFromI32 ==
    /\ op = "init"
    /\ op' = "from_i32"
    /\ ret' = from_i32(arg)
    /\ UNCHANGED <<arg, footer, nsets>>

NextColor == ColorFromI32

SpecColor == InitColor /\ [][NextColor]_vars

(***************************************************************************)
(* SpecFooter: the program holds Footer::default(), may replace it once by *)
(* the result of a parse (from_str is a constructor: its result does not   *)
(* depend on the footer held before), and then calls set, get and          *)
(* is_solid in any order.                                                  *)
(***************************************************************************)
InitFooter ==
    /\ op = "default"
    /\ arg = None
    /\ ret = None
    /\ footer = Footer_default
    /\ nsets = 0

FooterParse ==
    /\ op = "default"
    /\ \E d \in FooterTexts :
        LET res == Footer_from_str(FooterText(d))
        IN  /\ op' = "from_str"
            /\ arg' = d
            /\ ret' = IF res.ok THEN Ok(Unit) ELSE res
            /\ footer' = IF res.ok THEN res.val ELSE footer
            /\ UNCHANGED nsets

FooterSet ==
    /\ nsets < MaxSets
    /\ \E coords \in Coords, value \in SetColors :
        LET r == Footer_set(footer, coords, value)
        IN  /\ op' = "set"
            /\ arg' = [coords |-> coords, value |-> value]
            /\ ret' = r.res
            /\ footer' = r.data
            /\ nsets' = nsets + 1

FooterGet ==
    \E coords \in Coords :
        /\ op' = "get"
        /\ arg' = [coords |-> coords]
        /\ ret' = Footer_get(footer, coords)
        /\ UNCHANGED <<footer, nsets>>

FooterIsSolid ==
    /\ op' = "is_solid"
    /\ arg' = None
    /\ ret' = Footer_is_solid(footer)
    /\ UNCHANGED <<footer, nsets>>

NextFooter == FooterParse \/ FooterSet \/ FooterGet \/ FooterIsSolid

SpecFooter == InitFooter /\ [][NextFooter]_vars

(***************************************************************************)
(* SpecEdge: three edges are drawn and compared with ==.                   *)
(***************************************************************************)
InitEdge ==
    /\ op = "init"
    /\ arg \in [e : Edges, f : Edges, g : Edges]
    /\ ret = None
    /\ NoFooter

EdgeEq ==
    /\ op = "init"
    /\ op' = "eq"
    /\ ret' = [ee |-> Edge_eq(arg.e, arg.e),
               ef |-> Edge_eq(arg.e, arg.f),
               fe |-> Edge_eq(arg.f, arg.e),
               fg |-> Edge_eq(arg.f, arg.g),
               eg |-> Edge_eq(arg.e, arg.g),
               swapped |-> Edge_eq(arg.e, Edge_new(arg.e.end, arg.e.start))]
    /\ UNCHANGED <<arg, footer, nsets>>

NextEdge == EdgeEq

SpecEdge == InitEdge /\ [][NextEdge]_vars

(***************************************************************************)
(* SpecMesh: a mesh is drawn and Mesh::edges is called on it.              *)
(***************************************************************************)
InitMesh ==
    /\ op = "init"
    /\ arg \in Meshes
    /\ ret = None
    /\ NoFooter

MeshEdges ==
    /\ op = "init"
    /\ op' = "edges"
    /\ ret' = Mesh_edges(arg)
    /\ UNCHANGED <<arg, footer, nsets>>

NextMesh == MeshEdges

SpecMesh == InitMesh /\ [][NextMesh]_vars

(***************************************************************************)
(* SpecRot: a rotation is drawn; it is normalized and rounded, and it is   *)
(* rounded, normalized and rounded (the steps of equal_rotation).          *)
(***************************************************************************)
InitRot ==
    /\ op = "init"
    /\ arg \in Rotations
    /\ ret = None
    /\ NoFooter

RotSequences ==
    /\ op = "init"
    /\ op' = "rotate"
    /\ ret' = [nr |-> Rotation_round(Rotation_normalize(arg)),
               rnr |-> Rotation_round(Rotation_normalize(Rotation_round(arg))),
               same |-> Rotation_equal_rotation(arg, Rotation_normalize(arg))]
    /\ UNCHANGED <<arg, footer, nsets>>

NextRot == RotSequences

SpecRot == InitRot /\ [][NextRot]_vars

(***************************************************************************)
(* SpecFace: a face table is drawn, with the build's overflow checks on or *)
(* off; Face::try_from decodes it and the decoded face is written.         *)
(***************************************************************************)
InitFace ==
    /\ op = "init"
    /\ arg \in [table : FaceTables, overflow_checks : BOOLEAN]
    /\ ret = None
    /\ NoFooter

FaceTryFrom ==
    /\ op = "init"
    /\ op' = "try_from"
    /\ ret' = Face_try_from(arg.table, arg.overflow_checks)
    /\ UNCHANGED <<arg, footer, nsets>>

FaceDisplay ==
    /\ op = "try_from"
    /\ ret.ok
    /\ op' = "to_string"
    /\ ret' = [face |-> ret.val, text |-> Face_to_string(ret.val, arg.overflow_checks)]
    /\ UNCHANGED <<arg, footer, nsets>>

NextFace == FaceTryFrom \/ FaceDisplay

SpecFace == InitFace /\ [][NextFace]_vars

(***************************************************************************)
(* Spec: a document text is drawn, with the build's overflow checks on or  *)
(* off; it is parsed, the Model is written, and the written text is parsed.*)
(***************************************************************************)
Init ==
    /\ op = "init"
    /\ arg \in [doc : Documents, overflow_checks : BOOLEAN]
    /\ ret = None
    /\ NoFooter

ModelFromStr ==
    /\ op = "init"
    /\ op' = "from_str"
    /\ ret' = Model_from_str(DocText(arg.doc), arg.overflow_checks)
    /\ UNCHANGED <<arg, footer, nsets>>

ModelDisplay ==
    /\ op = "from_str"
    /\ ret.ok
    /\ op' = "to_string"
    /\ ret' = [model |-> ret.val, text |-> Model_to_string(ret.val, arg.overflow_checks)]
    /\ UNCHANGED <<arg, footer, nsets>>

ModelReparse ==
    /\ op = "to_string"
    /\ ret.text.ok
    /\ op' = "reparsed"
    /\ ret' = [model |-> ret.model, text |-> ret.text,
               again |-> Model_from_str(ret.text.val, arg.overflow_checks)]
    /\ UNCHANGED <<arg, footer, nsets>>

Next == ModelFromStr \/ ModelDisplay \/ ModelReparse

Spec == Init /\ [][Next]_vars

\* C4: Color::from(i32) is total: every integer outside [0,15] gives Invalid, and
\* every i in [0,15] gives a valid colour c with c.as_i32() = i (so the 16 codes
\* map to 16 distinct colours).
C4_FromI32Total ==
    op = "from_i32" =>
        /\ ret \in Color
        /\ (arg < 0 \/ arg > 15) => ret = "Invalid"
        /\ (arg >= 0 /\ arg <= 15) => (ret # "Invalid" /\ as_i32(ret) = arg)

C4_Witness ==
    /\ op = "from_i32"
    /\ arg = 16
    /\ ret = "Invalid"

InBounds(coords) == coords.u <= 127 /\ coords.v <= 119

\* The characters of a text that are neither ' ' nor '\n'.
KeptPositions(text) == {i \in DOMAIN text : text[i] # " " /\ text[i] # "\n"}

\* C5: every Footer reachable through Footer::default, a successful parse and any
\* sequence of set calls holds exactly 15360 pixels; a parse of a text with n
\* characters left after the separators are filtered out returns FooterLength(n)
\* whenever n # 15360 (it never truncates or pads), and succeeds otherwise.
C5_FooterLength ==
    /\ Len(footer) = 15360
    /\ op = "from_str" =>
          LET n == Cardinality(KeptPositions(FooterText(arg)))
          IN  /\ n # 15360 => ret = Err(<<"FooterLength", n>>)
              /\ n = 15360 => ret = Ok(Unit)

C5_Witness ==
    /\ op = "from_str"
    /\ arg.lines = 119
    /\ ret = Err(<<"FooterLength", 119 * 128>>)
    /\ Len(footer) = 15360

\* C6: get returns Some(colour) iff u <= 127 and v <= 119 and None otherwise; set
\* returns Ok iff u <= 127 and v <= 119 and otherwise Err(IndexUSIZE), leaving
\* every pixel unchanged; neither panics for any (u, v).
C6_GetSetBounds ==
    [][ /\ op' = "get" =>
            /\ ret'.some <=> InBounds(arg'.coords)
            /\ ret'.some => ret'.val \in Color
            /\ footer' = footer
        /\ op' = "set" =>
            /\ ret' # Panic
            /\ ret'.ok <=> InBounds(arg'.coords)
            /\ ~ret'.ok =>
                  /\ ret'.err = <<"IndexUSIZE", arg'.coords, Point2D(128, 120)>>
                  /\ footer' = footer
      ]_vars

C6_Witness ==
    /\ op = "set"
    /\ arg.coords = Point2D(128, 119)
    /\ ~ret.ok

\* The texture has one colour throughout: the first pixel equals the last and no
\* pixel differs from the next one.
OneColour(data) ==
    /\ data[1] = data[Len(data)]
    /\ \A i \in 1..(Len(data) - 1) : data[i] = data[i + 1]

\* C7: is_solid() is true iff all 15360 pixels equal the first pixel; it is true
\* for Footer::default(); and after a successful set of any one pixel of a solid
\* footer to a colour different from the footer's colour it is false.
C7_IsSolid ==
    /\ [](op = "is_solid" =>
            /\ ret <=> OneColour(footer)
            /\ (nsets = 0 /\ footer[1] = "Black" /\ OneColour(footer)) => ret)
    /\ [][ (/\ op' = "set"
             /\ ret'.ok
             /\ arg'.value # footer[1]
             /\ OneColour(footer))
            => ~Footer_is_solid(footer')
         ]_vars

C7_Witness ==
    /\ op = "set"
    /\ ret.ok
    /\ arg.coords = Point2D(0, 0)
    /\ footer[1] = arg.value
    /\ footer[2] # footer[1]
    /\ \A i \in 2..Len(footer) : footer[i] = footer[2]

NoNaNPoint(p) == p.x # NaN /\ p.y # NaN /\ p.z # NaN
NoNaNEdge(e) == NoNaNPoint(e.start) /\ NoNaNPoint(e.end)

\* The two edges have the same unordered pair of endpoints.
SamePair(e, f) == {e.start, e.end} = {f.start, f.end}

\* C8 (as claimed): Edge(A,B) == Edge(B,A) for all points A and B;
\* Edge(A,B) == Edge(C,D) iff {A,B} and {C,D} are the same unordered pair; the
\* relation is reflexive, symmetric and transitive.
C8_AsClaimed ==
    op = "eq" =>
        /\ ret.swapped
        /\ ret.ef <=> SamePair(arg.e, arg.f)
        /\ ret.ee
        /\ ret.ef <=> ret.fe
        /\ (ret.ef /\ ret.fg) => ret.eg

\* C8 (amended): for points with no NaN coordinate Edge(A,B) == Edge(B,A), an edge
\* equals itself, and Edge(A,B) == Edge(C,D) iff {A,B} and {C,D} are the same
\* unordered pair; an edge with a NaN coordinate in an endpoint is == to no edge,
\* itself included; on all edges == is symmetric and transitive and implies the
\* same unordered pair of endpoints.
C8_EdgeEq ==
    op = "eq" =>
        /\ NoNaNEdge(arg.e) => (ret.swapped /\ ret.ee)
        /\ (NoNaNEdge(arg.e) /\ NoNaNEdge(arg.f)) => (ret.ef <=> SamePair(arg.e, arg.f))
        /\ ~NoNaNEdge(arg.e) => (~ret.swapped /\ ~ret.ee /\ ~ret.ef /\ ~ret.fe)
        /\ ret.ef => SamePair(arg.e, arg.f)
        /\ ret.ef <=> ret.fe
        /\ (ret.ef /\ ret.fg) => ret.eg

C8_Witness ==
    /\ op = "eq"
    /\ NoNaNEdge(arg.e)
    /\ arg.e.start # arg.e.end
    /\ arg.f = Edge_new(arg.e.end, arg.e.start)
    /\ ret.ef
    /\ ret.fe

\* The edges Face::edges yields for the faces of a mesh, face after face.
AllFaceEdges(mesh) ==
    Concat([k \in 1..Len(mesh.faces) |-> Face_edges(mesh.faces[k], mesh.vertices)])

\* The positions of a list of edges that hold an edge == to no earlier one.
FirstOccurrences(all) ==
    {k \in 1..Len(all) : \A j \in 1..(k - 1) : ~Edge_eq(all[j], all[k])}

\* The list in the given positions, in order.
Pick(all, keep) ==
    [i \in 1..Cardinality(keep) |->
        all[CHOOSE k \in keep : Cardinality({j \in keep : j < k}) = i - 1]]

NoTwoEqual(edges) ==
    \A i, j \in 1..Len(edges) : i # j => ~Edge_eq(edges[i], edges[j])

\* How often an edge occurs in a list, up to ==.
Occurrences(edges, e) == Cardinality({i \in 1..Len(edges) : Edge_eq(edges[i], e)})

EdgesAsClaimed(mesh, edges) ==
    LET all == AllFaceEdges(mesh)
    IN  /\ NoTwoEqual(edges)
        /\ \A k \in 1..Len(all) : Occurrences(edges, all[k]) = 1
        /\ \A i \in 1..Len(edges) : Edges_contains(all, edges[i])
        /\ edges = Pick(all, FirstOccurrences(all))

\* C9 (as claimed): Mesh::edges() returns a list in which no two entries are equal
\* under undirected-edge equality and which contains, up to that equality, exactly
\* the edges Face::edges yields for each face, in order of first occurrence; an
\* edge yielded twice (by two faces in opposite directions, or by one face)
\* appears once.
C9_AsClaimed == op = "edges" => EdgesAsClaimed(arg, ret)

\* C9 (amended): the same, for a mesh whose vertices have no NaN coordinate; for
\* every mesh the list holds no two == entries and is the list of the face edges
\* that are == to no earlier face edge, in order (an edge with a NaN coordinate is
\* == to none, so it is kept every time it is yielded).
C9_MeshEdges ==
    op = "edges" =>
        /\ (\A k \in 1..Len(arg.vertices) : NoNaNPoint(arg.vertices[k]))
              => EdgesAsClaimed(arg, ret)
        /\ NoTwoEqual(ret)
        /\ ret = Pick(AllFaceEdges(arg), FirstOccurrences(AllFaceEdges(arg)))

IndicesOf(face) == [k \in 1..Len(face.uv_maps) |-> face.uv_maps[k].vertex_index]

\* A triangle and a face that runs along one of its edges the other way round.
C9_Witness ==
    /\ op = "edges"
    /\ arg.vertices = <<pA, pB, pC>>
    /\ Len(arg.faces) = 2
    /\ IndicesOf(arg.faces[1]) = <<0, 1, 2>>
    /\ IndicesOf(arg.faces[2]) = <<1, 0>>
    /\ ret = <<Edge_new(pA, pB), Edge_new(pB, pC), Edge_new(pC, pA)>>

\* The fractional part of a component, in [0, 1).
Frac(v) == v % One

\* The fractional part rounds, to three decimals, up to a whole turn.
RoundsUpToTurn(v) == 2 * Frac(v) >= 2 * One - Milli

\* The component lies half-way between two thousandths.
HalfWay(v) == (2 * v) % (2 * Milli) = Milli

Components == {"x", "y", "z"}

RotExample ==
    arg = Point3D(One - 1, One, 0)
        => (ret.nr = Point3D(One, 0, 0) /\ ret.rnr = Point3D(0, 0, 0))

\* C10 (as claimed): for Rotation(0.9999, 1.0, 0.0), normalize then round yields
\* (1.0, 0.0, 0.0) and round, normalize, round yields (0.0, 0.0, 0.0); the two
\* sequences differ exactly on the components whose fractional part rounds up to
\* a whole turn, and agree on all others.
C10_AsClaimed ==
    op = "rotate" =>
        /\ RotExample
        /\ \A c \in Components : (ret.nr[c] # ret.rnr[c]) <=> RoundsUpToTurn(arg[c])

\* C10 (amended): the example holds; on the components of RotValues (multiples of
\* 0.0001 that are not half-way between two thousandths, and the half-way values
\* that an f64 holds exactly) the two sequences differ on every component whose
\* fractional part rounds up to a whole turn (normalize then round gives 1.0, the
\* other 0.0) and on every negative half-way component (such as -0.0625: 0.938
\* against 0.937), and agree on all others.
C10_RoundNormalize ==
    op = "rotate" =>
        /\ RotExample
        /\ \A c \in Components :
            /\ RoundsUpToTurn(arg[c]) => (ret.nr[c] = One /\ ret.rnr[c] = 0)
            /\ (arg[c] < 0 /\ HalfWay(arg[c]) /\ ~RoundsUpToTurn(arg[c]))
                  => ret.nr[c] = ret.rnr[c] + Milli
            /\ (ret.nr[c] # ret.rnr[c])
                  <=> (RoundsUpToTurn(arg[c]) \/ (arg[c] < 0 /\ HalfWay(arg[c])))

C10_Witness ==
    /\ op = "rotate"
    /\ arg = Point3D(One - 1, One, 0)
    /\ ret.nr = Point3D(One, 0, 0)
    /\ ret.rnr = Point3D(0, 0, 0)

\* The positional part is a list of wire indices, each an integer >= 1.
WireIndices(table) == \A k \in 1..Len(table.seq) : table.seq[k].t = "integer" /\ table.seq[k].n >= 1

HasField(table, key) == \E k \in 1..Len(table.named) : table.named[k].key = key

FieldOf(table, key) == (CHOOSE f \in {table.named[k] : k \in 1..Len(table.named)} : f.key = key).val

IsNumber(v) == v.t \in {"integer", "number"}

\* The uv numbers found: those before the first entry that is no number.
UvFound(uv) ==
    IF \A k \in 1..Len(uv.seq) : IsNumber(uv.seq[k]) THEN Len(uv.seq)
    ELSE (CHOOSE k \in 1..Len(uv.seq) :
             ~IsNumber(uv.seq[k]) /\ \A j \in 1..(k - 1) : IsNumber(uv.seq[j])) - 1

\* The f64 of a uv number.
UvValue(v) == IF v.t = "integer" THEN v.n * One ELSE v.n

HasUvTable(table) == HasField(table, <<"u", "v">>) /\ FieldOf(table, <<"u", "v">>).t = "table"

\* The text begins with the given characters.
StartsWith(text, prefix) ==
    Len(text) >= Len(prefix) /\ SubSeq(text, 1, Len(prefix)) = prefix

\* C2: for a face literal with wire vertex indices i1..in (each >= 1) and matching
\* uv data, decoding gives n UVMap entries with vertex_index i_k - 1 in the same
\* order and coords the k-th uv pair; serializing emits vertex_index + 1 for each
\* entry in the same order, so the wire indices are reproduced and never reordered.
C2_IndexConversion ==
    (/\ WireIndices(arg.table)
     /\ HasUvTable(arg.table)
     /\ UvFound(FieldOf(arg.table, <<"u", "v">>)) = 2 * Len(arg.table.seq))
    => LET seq == arg.table.seq
           uv == FieldOf(arg.table, <<"u", "v">>).seq
       IN  /\ op = "try_from" =>
                /\ ret.ok
                /\ Len(ret.val.uv_maps) = Len(seq)
                /\ \A k \in 1..Len(seq) :
                     /\ ret.val.uv_maps[k].vertex_index = seq[k].n - 1
                     /\ ret.val.uv_maps[k].coords
                          = Point2D(UvValue(uv[2 * k - 1]), UvValue(uv[2 * k]))
           /\ op = "to_string" =>
                /\ ret.text.ok
                /\ StartsWith(ret.text.val,
                       <<"{">> \o Concat([k \in 1..Len(seq) |-> i32_to_string(seq[k].n) \o <<",">>])
                              \o <<" ", "c", "=">>)
                /\ Lua_eval_table(ret.text.val).ok
                /\ Lua_eval_table(ret.text.val).val.seq = seq

C2_Witness ==
    /\ op = "to_string"
    /\ arg.table.seq = <<LuaInteger(4), LuaInteger(3), LuaInteger(2), LuaInteger(1)>>
    /\ HasUvTable(arg.table)
    /\ IndicesOf(ret.face) = <<3, 2, 1, 0>>
    /\ ret.text.ok
    /\ StartsWith(ret.text.val, <<"{", "4", ",", "3", ",", "2", ",", "1", ",", " ", "c", "=">>)

\* C3: when a face literal (wire indices >= 1) carries a uv table, decoding succeeds
\* only if the number of uv numbers is twice the number of vertex indices, and
\* otherwise returns FaceUVMapLength(number of indices, number of uv numbers found)
\* and no Face; a literal with no uv field decodes with every coordinate pair (0,0).
C3_UvLength ==
    op = "try_from" =>
        LET n == Len(sequence_values(arg.table.seq))
        IN  /\ HasUvTable(arg.table) =>
                LET m == UvFound(FieldOf(arg.table, <<"u", "v">>))
                IN  /\ ret.ok => m = 2 * n
                    /\ (WireIndices(arg.table) /\ m = 2 * n) => ret.ok
                    /\ (WireIndices(arg.table) /\ m # 2 * n)
                          => ret = Err(<<"FaceUVMapLength", n, m>>)
            /\ (WireIndices(arg.table) /\ ~HasField(arg.table, <<"u", "v">>)) =>
                /\ ret.ok
                /\ Len(ret.val.uv_maps) = n
                /\ \A k \in 1..n : ret.val.uv_maps[k].coords = Point2D(0, 0)

C3_Witness ==
    /\ op = "try_from"
    /\ Len(arg.table.seq) = 3
    /\ WireIndices(arg.table)
    /\ HasUvTable(arg.table)
    /\ UvFound(FieldOf(arg.table, <<"u", "v">>)) = 4
    /\ ret = Err(<<"FaceUVMapLength", 3, 4>>)

\* Black where the colour is Invalid.
Written(c) == IF c = "Invalid" THEN "Black" ELSE c

\* The model with every Invalid colour replaced by Black.
WrittenModel(model) ==
    [header |-> [model.header EXCEPT !.background = Written(@), !.alpha = Written(@)],
     meshes |-> [i \in 1..Len(model.meshes) |->
                    [model.meshes[i] EXCEPT !.faces =
                        [k \in 1..Len(@) |-> [@[k] EXCEPT !.color = Written(@)]]]],
     footer |-> [i \in 1..Len(model.footer) |-> Written(model.footer[i])]]

\* The model holds no Color::Invalid: header, faces and footer.
NoInvalid(model) == WrittenModel(model) = model

\* No mesh name holds a quote, a backslash or a line break.
PlainNames(model) ==
    \A i \in 1..Len(model.meshes) : \A k \in 1..Len(model.meshes[i].name) :
        model.meshes[i].name[k] \notin {"'", "\\", "\n", "\r"}

\* C1 (as claimed): for every Model d returned by a successful parse of a document
\* text, whatever colour codes and footer characters it holds (d may hold
\* Color::Invalid), parsing serialize(d) succeeds and yields a Model equal to d
\* field for field.
C1_AsClaimed ==
    /\ op = "to_string" => ret.text.ok
    /\ op = "reparsed" => (ret.again.ok /\ Model_eq(ret.again.val, ret.model))

\* C1 (amended): for every Model d returned by a successful parse that holds no
\* Color::Invalid and whose mesh names hold no quote, backslash or line break,
\* parsing serialize(d) succeeds and yields a Model equal to d field for field; a d
\* with such names that holds Color::Invalid reads back with every Invalid
\* replaced by Black, so it is not equal to d; a d with a quote, a backslash or a
\* line break in a mesh name is written with the name as it is and does not read
\* back equal to d.
C1_RoundTrip ==
    /\ op = "to_string" => ret.text.ok
    /\ (op = "reparsed" /\ PlainNames(ret.model)) =>
          /\ ret.again.ok
          /\ Model_eq(ret.again.val, WrittenModel(ret.model))
          /\ NoInvalid(ret.model) => Model_eq(ret.again.val, ret.model)
          /\ ~NoInvalid(ret.model) => ~Model_eq(ret.again.val, ret.model)
    /\ (op = "reparsed" /\ ~PlainNames(ret.model)) =>
          ~(ret.again.ok /\ Model_eq(ret.again.val, ret.model))

\* A document with two meshes and a footer that is not solid, written in another
\* layout than the one it was read in, reads back equal.
C1_Witness ==
    /\ op = "reparsed"
    /\ Len(ret.model.meshes) = 2
    /\ NoInvalid(ret.model)
    /\ PlainNames(ret.model)
    /\ ret.text.val # DocText(arg.doc)
    /\ ret.again.ok
    /\ Model_eq(ret.again.val, ret.model)
    /\ ret.model.meshes[2].faces[1].color = "Green"
    /\ ret.model.meshes[2].name = <<"a", "%", "b">>

(***************************************************************************)
(* SpecSplit: a text of header characters, line breaks and '%' is drawn    *)
(* and seperate_model splits it.                                           *)
(***************************************************************************)
MaxText == 5
SplitChars == {"h", ";", "\n", "%"}
SplitTexts == SeqsUpTo(SplitChars, MaxText)

InitSplit ==
    /\ op = "init"
    /\ arg \in SplitTexts
    /\ ret = None
    /\ NoFooter

SplitModel ==
    /\ op = "init"
    /\ op' = "split"
    /\ ret' = seperate_model(arg)
    /\ UNCHANGED <<arg, footer, nsets>>

NextSplit == SplitModel

SpecSplit == InitSplit /\ [][NextSplit]_vars

Has(text, ch) == \E k \in 1..Len(text) : text[k] = ch

\* What follows the first line break of a text that has one.
AfterFirstLine(text) ==
    LET nl == CHOOSE k \in 1..Len(text) :
                  text[k] = "\n" /\ \A j \in 1..(k - 1) : text[j] # "\n"
    IN  SubSeq(text, nl + 1, Len(text))

\* C11: a text with a line break whose remainder after the first line break has
\* a '%' splits into (h, m, f) with text = h + "\n" + m + "%" + f, h without a
\* line break and f without '%'; a text without a line break fails with the
\* split error that names '\n'; a text whose remainder has no '%' fails with the
\* split error that names '%', also when the header line has a '%'.
C11_Split ==
    op = "split" =>
        IF ~Has(arg, "\n")
        THEN ret = Err(<<"Split", "seperate header from meshes with '\\n'">>)
        ELSE IF ~Has(AfterFirstLine(arg), "%")
        THEN ret = Err(<<"Split", "seperate meshes from footer with '%'">>)
        ELSE /\ ret.ok
             /\ Len(ret.val) = 3
             /\ arg = ret.val[1] \o <<"\n">> \o ret.val[2] \o <<"%">> \o ret.val[3]
             /\ ~Has(ret.val[1], "\n")
             /\ ~Has(ret.val[3], "%")

\* A split whose header and mesh part both hold a '%'.
C11_Witness ==
    /\ op = "split"
    /\ ret.ok
    /\ Has(ret.val[1], "%")
    /\ Has(ret.val[2], "%")

(***************************************************************************)
(* SpecParse: a document is drawn whose parts fail or not, stage by stage, *)
(* with the build's overflow checks on or off, and Model::from_str parses  *)
(* it.                                                                     *)
(***************************************************************************)
\* The entries of a mesh list: a mesh, a second mesh, a mesh whose pos is a
\* number, a mesh whose face has one uv number for two indices, a mesh whose
\* face has the wire index 0, and a number in the place of a mesh.
MeshEntryKinds == {"good", "other", "pos", "uv", "zero", "number"}

MeshEntryText(kind) ==
    CASE kind = "good" -> MeshText(BaseMesh)
      [] kind = "other" -> MeshText([BaseMesh EXCEPT !.name = <<"'", "a", "%", "b", "'">>])
      [] kind = "pos" -> <<"{", " ", "n", "a", "m", "e", "=", "'", "b", "'", ",", " ", "p", "o", "s", "=", "1", " ", "}">>
      [] kind = "uv" -> <<"{", " ", "f", "=", "{", " ", "{", "1", ",", "2", ",", " ", "u", "v", "=", "{", "0", "}", "}", " ", "}", " ", "}">>
      [] kind = "zero" -> MeshText([BaseMesh EXCEPT !.first = <<"0">>])
      [] kind = "number" -> <<"7">>

MaxParseMeshes == 2
ParseMeshLists == SeqsUpTo(MeshEntryKinds, MaxParseMeshes)

\* Header lines: the default one, one of four fields, one with another
\* identifier, one whose zoom is no number.
ParseHeaders ==
    {BaseHeader,
     <<"p", "i", "c", "o", "c", "a", "d", ";", "u", "n", "n", "a", "m", "e", "d", ";", "1", "6", ";", "1">>,
     <<"p", "i", "c", "o", "C", "A", "D", ";", "u", "n", "n", "a", "m", "e", "d", ";", "1", "6", ";", "1", ";", "0">>,
     <<"p", "i", "c", "o", "c", "a", "d", ";", "u", "n", "n", "a", "m", "e", "d", ";", "x", ";", "1", ";", "0">>}

\* A footer of three characters.
ShortFooter == [BaseFooter EXCEPT !.lines = 1, !.width = 3, !.sep = <<>>]

\* shape: the text has both separators ("full"), no line break at all, or no
\* '%' after its first line.  broken: the mesh list lacks its closing brace.
ParseDocs ==
    [shape : {"full", "no_newline", "no_percent"}, header : ParseHeaders,
     footer : {ShortFooter}, meshes : {<<"good">>, <<"pos">>}, broken : BOOLEAN]
        \cup [shape : {"full"}, header : ParseHeaders, footer : {BaseFooter},
              meshes : {<<"good">>, <<"pos">>}, broken : BOOLEAN]
        \cup [shape : {"full"}, header : {BaseHeader}, footer : {BaseFooter},
              meshes : ParseMeshLists, broken : BOOLEAN]

ParseText(d) ==
    LET nl == IF d.shape = "no_newline" THEN <<" ">> ELSE <<"\n">>
        pc == IF d.shape = "no_percent" THEN <<>> ELSE <<"%">>
        footer_text == IF d.shape = "no_newline" THEN FooterText([d.footer EXCEPT !.sep = <<>>])
                       ELSE FooterText(d.footer)
    IN  d.header \o nl \o <<"{">> \o nl
            \o Concat([i \in 1..Len(d.meshes) |->
                          MeshEntryText(d.meshes[i])
                              \o (IF i < Len(d.meshes) THEN <<",">> \o nl ELSE <<>>)])
            \o nl \o (IF d.broken THEN <<>> ELSE <<"}">>) \o pc \o nl \o footer_text

InitParse ==
    /\ op = "init"
    /\ arg \in [doc : ParseDocs, overflow_checks : BOOLEAN]
    /\ ret = None
    /\ NoFooter

ParseDocument ==
    /\ op = "init"
    /\ op' = "parsed"
    /\ ret' = Model_from_str(ParseText(arg.doc), arg.overflow_checks)
    /\ UNCHANGED <<arg, footer, nsets>>

NextParse == ParseDocument

SpecParse == InitParse /\ [][NextParse]_vars

\* The outcome of decoding one entry of a mesh list by itself.
EntryOutcome(kind, overflow_checks) ==
    IF kind = "number" THEN Err(LuaError)
    ELSE Mesh_try_from(Lua_eval_table(MeshEntryText(kind)).val, overflow_checks)

\* The place of the first entry that does not decode, or 0.
FirstFailing(kinds, overflow_checks) ==
    LET failing == {i \in 1..Len(kinds) : ~EntryOutcome(kinds[i], overflow_checks).ok}
    IN  IF failing = {} THEN 0 ELSE CHOOSE i \in failing : \A j \in failing : i <= j

\* The outcome of the first failing stage of a document, in the order split,
\* header, footer, mesh list, or the Model of all its parts.
StageOutcome(d, overflow_checks) ==
    LET header == Header_from_str(d.header)
        footer_data == Footer_from_str(FooterText(d.footer))
        failing == FirstFailing(d.meshes, overflow_checks)
    IN  IF d.shape = "no_newline"
        THEN Err(<<"Split", "seperate header from meshes with '\\n'">>)
        ELSE IF d.shape = "no_percent"
        THEN Err(<<"Split", "seperate meshes from footer with '%'">>)
        ELSE IF ~header.ok THEN header
        ELSE IF ~footer_data.ok THEN footer_data
        ELSE IF d.broken THEN Err(LuaSyntaxError)
        ELSE IF failing # 0 THEN EntryOutcome(d.meshes[failing], overflow_checks)
        ELSE Ok([header |-> header.val,
                 meshes |-> [i \in 1..Len(d.meshes) |->
                                EntryOutcome(d.meshes[i], overflow_checks).val],
                 footer |-> footer_data.val])

\* Model::from_str gives the outcome of the first failing stage, and on success
\* the meshes in the number and order of the mesh list; a decoding that aborts
\* ends the parse like a failing one.
ParseStageOrder ==
    op = "parsed" =>
        /\ ret = StageOutcome(arg.doc, arg.overflow_checks)
        /\ ret.ok => Len(ret.val.meshes) = Len(arg.doc.meshes)

\* C12: Model parse returns a complete Model or an error, never a Model with a
\* mesh dropped: the error is that of the first failing stage in the order
\* split, header, footer, mesh list, within the mesh list that of the first
\* mesh that fails to decode, and on success the meshes are those of the mesh
\* list in number and order.
C12_AsClaimed ==
    op = "parsed" =>
        /\ ret # Panic
        /\ ret = StageOutcome(arg.doc, arg.overflow_checks)
        /\ ret.ok => Len(ret.val.meshes) = Len(arg.doc.meshes)

\* The parse of a well-formed document whose second mesh has a face with the
\* wire index 0, in a build with overflow checks.
C12_Witness ==
    /\ op = "parsed"
    /\ arg.doc.shape = "full"
    /\ arg.doc.meshes = <<"good", "zero">>
    /\ ~arg.doc.broken
    /\ arg.overflow_checks
    /\ ret = Panic

(***************************************************************************)
(* SpecHeader: a header line is drawn, of one to five fields and up to     *)
(* MaxExtraFields more, and Header::from_str parses it.                    *)
(***************************************************************************)
MaxExtraFields == 2

\* The texts tried for each of the five fields, and the extra field.
HeaderFieldTexts ==
    [id : {picocad, <<"p", "i", "c", "o", "C", "A", "D">>},
     name : {<<"n">>},
     zoom : {<<"1", "6">>, <<"2", "5", "5">>, <<"+", "5">>, <<"2", "5", "6">>, <<"x">>,
             <<"-", "0">>, <<>>},
     background : {<<"1">>, <<"1", "6">>, <<"-", "1">>, <<"x">>,
                   <<"2", "1", "4", "7", "4", "8", "3", "6", "4", "8">>},
     alpha : {<<"0">>, <<"-", "1">>, <<"9", "9">>, <<"x">>, <<>>}]

ExtraField == <<"7">>

\* The first `count` fields of a header, joined by ';'.
HeaderLine(f, count) ==
    LET fields == <<f.id, f.name, f.zoom, f.background, f.alpha>>
                      \o [k \in 1..MaxExtraFields |-> ExtraField]
    IN  Concat([k \in 1..count |-> (IF k > 1 THEN <<";">> ELSE <<>>) \o fields[k]])

InitHeader ==
    /\ op = "init"
    /\ arg \in [fields : HeaderFieldTexts, count : 1..(5 + MaxExtraFields)]
    /\ ret = None
    /\ NoFooter

HeaderParse ==
    /\ op = "init"
    /\ op' = "from_str"
    /\ ret' = Header_from_str(HeaderLine(arg.fields, arg.count))
    /\ UNCHANGED <<arg, footer, nsets>>

NextHeader == HeaderParse

SpecHeader == InitHeader /\ [][NextHeader]_vars

\* The number of fields of a line: one more than its ';'.
FieldCount(line) == Cardinality({k \in 1..Len(line) : line[k] = ";"}) + 1

\* Header::from_str reports HeaderLength(n) for a line of n < 5 fields; a line
\* of more than 5 fields fails with another error: Identifier, or HeaderField of
\* zoom, background or alpha.
HeaderFieldCount ==
    op = "from_str" =>
        LET n == FieldCount(HeaderLine(arg.fields, arg.count))
        IN  /\ n = arg.count
            /\ n < 5 => ret = Err(<<"HeaderLength", n>>)
            /\ n > 5 =>
                  /\ ~ret.ok
                  /\ ret.err \in {<<"Identifier">>, <<"HeaderField", "zoom">>,
                                  <<"HeaderField", "background">>, <<"HeaderField", "alpha">>}
                  /\ (arg.fields.id = picocad /\ parse_u8(arg.fields.zoom).ok
                          /\ parse_i32(arg.fields.background).ok)
                        => ret.err = <<"HeaderField", "alpha">>

\* C13: Header parse returns HeaderLength(n) for every line that does not split
\* on ';' into exactly 5 fields, with fewer than 5 fields and with more than 5.
C13_AsClaimed ==
    op = "from_str" =>
        LET n == FieldCount(HeaderLine(arg.fields, arg.count))
        IN  n # 5 => ret = Err(<<"HeaderLength", n>>)

\* The parse of picocad;n;16;1;0;7, a line of six fields.
C13_Witness ==
    /\ op = "from_str"
    /\ arg.count = 6
    /\ arg.fields = [id |-> picocad, name |-> <<"n">>, zoom |-> <<"1", "6">>,
                     background |-> <<"1">>, alpha |-> <<"0">>]
    /\ ret = Err(<<"HeaderField", "alpha">>)

(***************************************************************************)
(* SpecMeshTable: a mesh table is drawn, each of its five fields absent,   *)
(* of the right shape or of a wrong one, with pairs() visiting the fields  *)
(* in one of the orders tried (Lua leaves the order open), and             *)
(* Mesh::try_from decodes it.                                              *)
(***************************************************************************)
MeshKeys == <<<<"n", "a", "m", "e">>, <<"p", "o", "s">>, <<"r", "o", "t">>, <<"v">>, <<"f">>>>

LuaPoint == LuaTable(<<LuaInteger(0), LuaNumber(One \div 2), LuaInteger(1)>>, <<>>)

\* The values tried for each field: none, one of the right shape, one of a
\* wrong shape.
MeshFieldValues ==
    [name : {LuaNil, LuaString(<<"m">>), LuaInteger(1)},
     pos : {LuaNil, LuaPoint, LuaNumber(One)},
     rot : {LuaNil, LuaPoint, LuaString(<<"x">>)},
     v : {LuaNil, LuaTable(<<LuaPoint, LuaPoint>>, <<>>), LuaInteger(3)},
     f : {LuaNil, LuaTable(<<LuaTable(<<LuaInteger(1), LuaInteger(2)>>, <<>>)>>, <<>>),
          LuaBoolean(TRUE)}]

\* The orders of the five keys tried: as written, reversed, and two others.
FieldOrders ==
    {<<1, 2, 3, 4, 5>>, <<5, 4, 3, 2, 1>>, <<4, 5, 1, 2, 3>>, <<3, 1, 5, 2, 4>>}

FieldValue(values, k) ==
    CASE k = 1 -> values.name [] k = 2 -> values.pos [] k = 3 -> values.rot
      [] k = 4 -> values.v [] k = 5 -> values.f

\* The table with the fields that are there, in the order given.
MeshTableOf(values, order) ==
    LuaTable(<<>>,
             SelectSeq([i \in 1..5 |-> LuaField(MeshKeys[order[i]], FieldValue(values, order[i]))],
                       LAMBDA field : field.val.t # "nil"))

InitMeshTable ==
    /\ op = "init"
    /\ arg \in [values : MeshFieldValues, order : FieldOrders, overflow_checks : BOOLEAN]
    /\ ret = None
    /\ NoFooter

MeshTryFrom ==
    /\ op = "init"
    /\ op' = "try_from"
    /\ ret' = Mesh_try_from(MeshTableOf(arg.values, arg.order), arg.overflow_checks)
    /\ UNCHANGED <<arg, footer, nsets>>

NextMeshTable == MeshTryFrom

SpecMeshTable == InitMeshTable /\ [][NextMeshTable]_vars

\* The keys (by place in MeshKeys) whose value is there with a wrong shape.
WrongShape(values) ==
    {k \in 1..5 :
        /\ FieldValue(values, k).t # "nil"
        /\ FieldValue(values, k).t # (IF k = 1 THEN "string" ELSE "table")}

\* The field name Mesh::try_from reports for a key of the wrong shape.
ReportedField(k) ==
    CASE k = 1 -> "name" [] k = 2 -> "pos" [] k = 3 -> "rot" [] k = 4 -> "rot" [] k = 5 -> "rot"

\* Mesh::try_from fails with MeshField when a field has a wrong shape and
\* decodes otherwise; it names name, pos and rot by their key, and reports v
\* and f as "rot".
MeshFieldErrors ==
    op = "try_from" =>
        LET wrong == WrongShape(arg.values)
        IN  /\ ret.ok <=> wrong = {}
            /\ wrong # {} => \E k \in wrong : ret = Err(<<"MeshField", ReportedField(k)>>)

KeyName(k) ==
    CASE k = 1 -> "name" [] k = 2 -> "pos" [] k = 3 -> "rot" [] k = 4 -> "v" [] k = 5 -> "f"

\* C14: when one of name, pos, rot, v, f is present with the wrong shape (name
\* not a string; pos, rot, v or f not a table), decoding fails with MeshField
\* carrying the key of exactly that field.
C14_AsClaimed ==
    op = "try_from" =>
        \A k \in 1..5 :
            WrongShape(arg.values) = {k} => ret = Err(<<"MeshField", KeyName(k)>>)

\* The decoding of a mesh table whose v alone has a wrong shape (v=3).
C14_Witness ==
    /\ op = "try_from"
    /\ WrongShape(arg.values) = {4}
    /\ ret = Err(<<"MeshField", "rot">>)

(***************************************************************************)
(* SpecFooterLines: a grid of 120 lines of 128 characters is drawn, with   *)
(* its line terminator, and Footer::from_str parses it.                    *)
(***************************************************************************)
LF == <<"\n">>
CRLF == <<"\r", "\n">>

\* Grids of one hex digit with another character at one place of the first
\* line; lines ended by LF, by CRLF, by a blank and LF, or by nothing.
FooterGrids ==
    [lines : {120}, width : {128}, sep : {LF, CRLF, <<" ", "\n">>, <<>>},
     fill : {"0", "d", "f"}, mark : {"0", "7", "a", "x"}, at : {1, 128}]

InitFooterLines ==
    /\ op = "init"
    /\ arg \in FooterGrids
    /\ ret = None
    /\ NoFooter

FooterLinesParse ==
    /\ op = "init"
    /\ op' = "from_str"
    /\ ret' = Footer_from_str(FooterText(arg))
    /\ UNCHANGED <<arg, footer, nsets>>

NextFooterLines == FooterLinesParse

SpecFooterLines == InitFooterLines /\ [][NextFooterLines]_vars

\* The pixel buffer of a grid: its characters line by line.
GridPixels(d) ==
    [i \in 1..(d.lines * d.width) |-> from_char(IF i = d.at THEN d.mark ELSE d.fill)]

\* Footer::from_str drops blanks and '\n' only: a grid whose lines end with LF
\* parses to its pixels, and one whose lines end with CRLF fails with
\* FooterLength(15480), the 120 '\r' being counted.
FooterLineEnds ==
    op = "from_str" =>
        /\ arg.sep # CRLF => ret = Ok(GridPixels(arg))
        /\ arg.sep = CRLF => ret = Err(<<"FooterLength", DATA_LENGHT + arg.lines>>)

\* C15: Footer parse strips the line separators before counting: a grid of 120
\* lines of 128 hex digits parses successfully, and to the same pixel buffer,
\* whether its lines are terminated by LF or by CRLF.
C15_AsClaimed ==
    (op = "from_str" /\ arg.sep \in {LF, CRLF}) => ret = Ok(GridPixels(arg))

\* The parse of a grid of hex digits whose lines end with CRLF.
C15_Witness ==
    /\ op = "from_str"
    /\ arg.sep = CRLF
    /\ arg.mark = "7"
    /\ ~ret.ok

(***************************************************************************)
(* SpecFlags: a face table {1,2, ...} is drawn with each of the keys dbl,  *)
(* noshade, notex and prio absent or present with some value, in one of    *)
(* the orders of pairs() tried; Face::try_from decodes it, the face is     *)
(* written and the text is decoded again.                                  *)
(***************************************************************************)
FlagKeys == <<<<"d", "b", "l">>, <<"n", "o", "s", "h", "a", "d", "e">>, <<"n", "o", "t", "e", "x">>, <<"p", "r", "i", "o">>>>

\* The value of a flag key: none, 1, 0, false, or a text.
FlagValues == {LuaNil, LuaInteger(1), LuaInteger(0), LuaBoolean(FALSE), LuaString(<<"n", "o">>)}

FlagOrders == {<<1, 2, 3, 4>>, <<4, 3, 2, 1>>, <<3, 1, 4, 2>>}

FlagTable(values, order) ==
    LuaTable(<<LuaInteger(1), LuaInteger(2)>>,
             SelectSeq([i \in 1..4 |-> LuaField(FlagKeys[order[i]], values[order[i]])],
                       LAMBDA field : field.val.t # "nil")
                 \o <<LuaField(<<"c">>, LuaInteger(8))>>)

InitFlags ==
    /\ op = "init"
    /\ arg \in [values : [1..4 -> FlagValues], order : FlagOrders, overflow_checks : BOOLEAN]
    /\ ret = None
    /\ NoFooter

FlagsTryFrom ==
    /\ op = "init"
    /\ op' = "try_from"
    /\ ret' = Face_try_from(FlagTable(arg.values, arg.order), arg.overflow_checks)
    /\ UNCHANGED <<arg, footer, nsets>>

\* The decoded face is written, and the text evaluated and decoded again.
FlagsDisplay ==
    /\ op = "try_from"
    /\ ret.ok
    /\ op' = "to_string"
    /\ LET text == Face_to_string(ret.val, arg.overflow_checks)
           table == Lua_eval_table(text.val)
       IN  ret' = [face |-> ret.val, text |-> text,
                   again |-> IF ~text.ok THEN text
                             ELSE IF ~table.ok THEN table
                             ELSE Face_try_from(table.val, arg.overflow_checks)]
    /\ UNCHANGED <<arg, footer, nsets>>

NextFlags == FlagsTryFrom \/ FlagsDisplay

SpecFlags == InitFlags /\ [][NextFlags]_vars

\* The flags of a face, in the order dbl, noshade, notex, prio.
FlagsOf(face) ==
    <<face.double_sided, face.no_shading, face.no_texture, face.render_priority>>

\* `key=1, ` for each flag that is set, in the order of the keys.
FlagsText(flags) ==
    Concat([i \in 1..4 |-> IF flags[i] THEN FlagKeys[i] \o <<"=", "1", ",", " ">> ELSE <<>>])

\* C16: each of the four flags of a decoded face is true iff its key (dbl,
\* noshade, notex, prio) is present in the table, whatever its value, and the
\* flags are independent of each other; the face is written with `key=1` for
\* exactly the true flags, in the order dbl, noshade, notex, prio, and with
\* nothing for the false ones (and the written text decodes to the same flags).
C16_Flags ==
    /\ op = "try_from" =>
          /\ ret.ok
          /\ \A i \in 1..4 : FlagsOf(ret.val)[i] <=> (arg.values[i] # LuaNil)
    /\ op = "to_string" =>
          /\ ret.text = Ok(<<"{", "1", ",", "2", ",", " ", "c", "=", "8", ",", " ">> \o FlagsText(FlagsOf(ret.face)) \o <<"u", "v", "=", "{", "0", ",", "0", ",", "0", ",", "0", "}", " ", "}">>)
          /\ ret.again.ok
          /\ FlagsOf(ret.again.val) = FlagsOf(ret.face)

\* A face decoded from dbl=0 and prio=false without noshade and notex, written
\* with dbl=1 and prio=1 only.
C16_Witness ==
    /\ op = "to_string"
    /\ arg.values = <<LuaInteger(0), LuaNil, LuaNil, LuaBoolean(FALSE)>>
    /\ FlagsOf(ret.face) = <<TRUE, FALSE, FALSE, TRUE>>
    /\ ret.text = Ok(<<"{", "1", ",", "2", ",", " ", "c", "=", "8", ",", " ", "d", "b", "l", "=", "1", ",", " ", "p", "r", "i", "o", "=", "1", ",", " ", "u", "v", "=", "{", "0", ",", "0", ",", "0", ",", "0", "}", " ", "}">>)

(***************************************************************************)
(* SpecColorRepr: a representation of a colour is drawn (an i32 code, a    *)
(* character or an (r, g, b)), converted to a Color, and the Color is      *)
(* written in its four representations.                                    *)
(***************************************************************************)
\* Characters: the hex digits in both cases, other letters and signs.
ReprChars == DigitChars \cup Letters \cup {" ", "-", "#", "\n"}

\* (r, g, b): the palette, and every triple one channel step away from a
\* palette entry within MaxStep (u8 keeps the channels in 0..255).
MaxStep == 1
ReprRgbs ==
    {RgbValues[i] : i \in 1..16}
        \cup {t \in UNION {{<<RgbValues[i][1] + d, RgbValues[i][2], RgbValues[i][3]>>,
                            <<RgbValues[i][1], RgbValues[i][2] + d, RgbValues[i][3]>>,
                            <<RgbValues[i][1], RgbValues[i][2], RgbValues[i][3] + d>>} :
                              i \in 1..16, d \in (-MaxStep)..MaxStep} :
                  \A k \in 1..3 : t[k] \in 0..255}
        \cup {<<255, 255, 255>>}

ReprInputs ==
    [kind : {"i32"}, v : Codes] \cup [kind : {"char"}, v : ReprChars]
        \cup [kind : {"rgb"}, v : ReprRgbs]

InitColorRepr ==
    /\ op = "init"
    /\ arg \in ReprInputs
    /\ ret = None
    /\ NoFooter

ColorFrom ==
    /\ op = "init"
    /\ op' = "from"
    /\ ret' = CASE arg.kind = "i32" -> from_i32(arg.v)
                [] arg.kind = "char" -> from_char(arg.v)
                [] arg.kind = "rgb" -> from_rgb(arg.v)
    /\ UNCHANGED <<arg, footer, nsets>>

ColorAs ==
    /\ op = "from"
    /\ op' = "as"
    /\ ret' = [color |-> ret, i32 |-> as_i32(ret), char |-> as_char(ret),
               hex |-> as_hex(ret), rgb |-> as_rgb(ret),
               is_black |-> Color_eq(ret, "Black")]
    /\ UNCHANGED <<arg, footer, nsets>>

NextColorRepr == ColorFrom \/ ColorAs

SpecColorRepr == InitColorRepr /\ [][NextColorRepr]_vars

\* The representation is that of a palette entry (a code in 0..15, a lower-case
\* hex digit, the (r, g, b) of a colour).
MatchesPalette(input) ==
    CASE input.kind = "i32" -> input.v \in 0..15
      [] input.kind = "char" -> input.v \in {HexChars[i] : i \in 1..16}
      [] input.kind = "rgb" -> input.v \in {RgbValues[i] : i \in 1..16}

\* The representation is one of Black: 0, '0' or (0, 0, 0).
IsBlackInput(input) ==
    CASE input.kind = "i32" -> input.v = 0
      [] input.kind = "char" -> input.v = "0"
      [] input.kind = "rgb" -> input.v = <<0, 0, 0>>

\* C17: Color::Invalid is written exactly like Color::Black in every outgoing
\* representation (as_i32 = 0, as_char = '0', as_hex = "000000", as_rgb =
\* (0,0,0)) while Invalid and Black are unequal as values; no incoming
\* conversion of a Black representation (0, '0', (0,0,0)) produces Invalid, and
\* Invalid is produced only from inputs that match no palette entry.
C17_InvalidAsBlack ==
    /\ op = "from" =>
          /\ ret \in Color
          /\ IsBlackInput(arg) => ret = "Black"
          /\ ret = "Invalid" <=> ~MatchesPalette(arg)
    /\ (op = "as" /\ ret.color \in {"Invalid", "Black"}) =>
          /\ ret.i32 = 0
          /\ ret.char = "0"
          /\ ret.hex = <<"0", "0", "0", "0", "0", "0">>
          /\ ret.rgb = <<0, 0, 0>>
          /\ ret.is_black <=> ret.color = "Black"
    /\ (op = "as" /\ ret.color \notin {"Invalid", "Black"}) =>
          /\ ret.i32 # 0
          /\ ret.char # "0"
          /\ ret.rgb # <<0, 0, 0>>
          /\ ~ret.is_black

\* Invalid, got from the character 'A' (no lower-case hex digit), written as
\* Black is, and unequal to Black.
C17_Witness ==
    /\ op = "as"
    /\ arg.kind = "char"
    /\ arg.v = "A"
    /\ ret.color = "Invalid"
    /\ ret.char = "0"
    /\ ret.rgb = <<0, 0, 0>>
    /\ ~ret.is_black

(***************************************************************************)
(* SpecRotEq: three rotations are drawn and compared with equal_rotation   *)
(* and with ==.                                                            *)
(***************************************************************************)
\* Components: the fractions 0, 0.0625, 0.5, 0.9375 and 0.9996, moved by up to
\* MaxEqTurns whole turns either way, NaN and the infinities.
MaxEqTurns == 2
EqFractions == {0, 625, 5000, 9375, 9996}
EqValues ==
    {u + k * One : u \in EqFractions, k \in (-MaxEqTurns)..MaxEqTurns}
        \cup {NaN, Inf, NegInf}
EqRotations == [x : EqValues, y : {One \div 2, One + One \div 2}, z : {0}]

InitRotEq ==
    /\ op = "init"
    /\ arg \in [a : EqRotations, b : EqRotations, c : EqRotations]
    /\ ret = None
    /\ NoFooter

\* The calls take their operands by shared reference: arg stays as it is.
RotEqualRotation ==
    /\ op = "init"
    /\ op' = "equal"
    /\ ret' = [aa |-> Rotation_equal_rotation(arg.a, arg.a),
               ab |-> Rotation_equal_rotation(arg.a, arg.b),
               ba |-> Rotation_equal_rotation(arg.b, arg.a),
               bc |-> Rotation_equal_rotation(arg.b, arg.c),
               ac |-> Rotation_equal_rotation(arg.a, arg.c),
               eq |-> Point3D_eq(arg.a, arg.b)]
    /\ UNCHANGED <<arg, footer, nsets>>

NextRotEq == RotEqualRotation

SpecRotEq == InitRotEq /\ [][NextRotEq]_vars

\* No component of the rotation is NaN or an infinity.
FinitePoint(p) == \A c \in Components : f64_is_finite(p[c])

\* round, normalize, round of one component.
Canonical(v) == round_component(normalize_component(round_component(v)))

\* The components of the two rotations differ by whole turns on every axis.
WholeTurnsApart(a, b) ==
    /\ FinitePoint(a)
    /\ FinitePoint(b)
    /\ \A c \in Components : (a[c] - b[c]) % One = 0

\* On some axis the two components are half-way between two thousandths and of
\* different signs.
TieAcrossZero(a, b) ==
    \E c \in Components : HalfWay(a[c]) /\ ((a[c] < 0) # (b[c] < 0))

EqExample ==
    (arg.a = Point3D(2 * One, One + One \div 2, 0) /\ arg.b = Point3D(0, One \div 2, 0))
        => (ret.ab /\ ~ret.eq)

MaxFaceIndices == 4
pD == Point3D(0, 0, One)

\* Vertex lists of two to four points: distinct points, a repeated point, a NaN
\* coordinate (index 3 resolves in the last list only).
FaceVertexLists == VertexLists \cup {<<pN, pA, pB>>, <<pA, pB, pC, pD>>}
FaceIndexLists == SeqsUpTo(0..3, MaxFaceIndices)

InitFaceEdges ==
    /\ op = "init"
    /\ arg \in [indices : FaceIndexLists, vertices : FaceVertexLists]
    /\ ret = None
    /\ NoFooter

FaceEdges ==
    /\ op = "init"
    /\ op' = "edges"
    /\ ret' = Face_edges(FaceOf(arg.indices), arg.vertices)
    /\ UNCHANGED <<arg, footer, nsets>>

FaceVertices ==
    /\ op = "init"
    /\ op' = "vertices"
    /\ ret' = Face_vertices(FaceOf(arg.indices), arg.vertices)
    /\ UNCHANGED <<arg, footer, nsets>>

NextFaceEdges == FaceEdges \/ FaceVertices

SpecFaceEdges == InitFaceEdges /\ [][NextFaceEdges]_vars

\* The entry resolves: its index is one of the vertex list.
Resolves(index, vertices) == index \in 0..(Len(vertices) - 1)

\* The point of the k-th entry of a face all of whose entries resolve.
PointOf(k) == arg.vertices[arg.indices[k] + 1]

\* The n >= 2 entries all resolve, and no two cyclically consecutive points are
\* the same.
ClosedWalk ==
    LET n == Len(arg.indices)
    IN  /\ n >= 2
        /\ \A k \in 1..n : Resolves(arg.indices[k], arg.vertices)
        /\ \A k \in 1..n : PointOf(k) # PointOf((k % n) + 1)

\* (p1,p2), (p2,p3), ..., (p(n-1),pn), (pn,p1)
WalkEdges ==
    LET n == Len(arg.indices)
    IN  [k \in 1..n |-> Edge_new(PointOf(k), PointOf((k % n) + 1))]

\* C19 (as claimed): for a face whose n >= 2 entries all resolve to points
\* p1..pn, no two cyclically consecutive points equal, edges() returns exactly
\* the n edges (p1,p2), ..., (p(n-1),pn), (pn,p1) in this order.
C19_AsClaimed ==
    (op = "edges" /\ ClosedWalk) => ret = WalkEdges

\* C19 (amended): the same when p1 has no NaN coordinate; when p1 has a NaN
\* coordinate, edges() returns n + 1 edges: (p1,p1) first, then the n edges.
C19_FaceEdges ==
    (op = "edges" /\ ClosedWalk) =>
        IF NoNaNPoint(PointOf(1)) THEN ret = WalkEdges
        ELSE ret = <<Edge_new(PointOf(1), PointOf(1))>> \o WalkEdges

\* The four edges of the face 3,2,1,0 over four distinct points.
C19_Witness ==
    /\ op = "edges"
    /\ arg.indices = <<3, 2, 1, 0>>
    /\ arg.vertices = <<pA, pB, pC, pD>>
    /\ ClosedWalk
    /\ ret = <<Edge_new(pD, pC), Edge_new(pC, pB), Edge_new(pB, pA), Edge_new(pA, pD)>>

\* The number of entries of the face that resolve.
ResolvedCount ==
    Cardinality({k \in 1..Len(arg.indices) : Resolves(arg.indices[k], arg.vertices)})

\* C20 (as claimed): Face::edges returns an empty list whenever fewer than 2
\* entries of the face resolve, however many unresolvable entries it has.
C20_AsClaimed ==
    (op = "edges" /\ ResolvedCount < 2) => ret = <<>>

\* C20 (what the code returns): with fewer than 2 resolving entries the list is
\* empty when the face has fewer than 2 entries or its first entry does not
\* resolve; when the first entry is the only one that resolves, the list holds
\* the degenerate closing edge (p1,p1), twice when p1 has a NaN coordinate.
FewResolvedEdges ==
    (op = "edges" /\ ResolvedCount < 2) =>
        IF Len(arg.indices) < 2 \/ ~Resolves(arg.indices[1], arg.vertices)
        THEN ret = <<>>
        ELSE LET p1 == PointOf(1)
             IN  IF NoNaNPoint(p1) THEN ret = <<Edge_new(p1, p1)>>
                 ELSE ret = <<Edge_new(p1, p1), Edge_new(p1, p1)>>

\* One resolving entry followed by one that is out of range: one edge (pA,pA).
C20_Witness ==
    /\ op = "edges"
    /\ arg.indices = <<0, 3>>
    /\ arg.vertices = <<pA, pB>>
    /\ ResolvedCount = 1
    /\ ret = <<Edge_new(pA, pA)>>

\* The indices of the face that resolve, in the order of the face.
ResolvedIndices ==
    LET Keep(index) == Resolves(index, arg.vertices)
    IN  SelectSeq(arg.indices, Keep)

\* The resolved points in the order of the face.
ResolvedPoints == [k \in 1..Len(ResolvedIndices) |-> arg.vertices[ResolvedIndices[k] + 1]]

\* The edges of the same face with its unresolvable entries removed.
EdgesOfResolved == Face_edges(FaceOf(ResolvedIndices), arg.vertices)

\* C21 (as claimed): Face::edges skips the entries that do not resolve, wherever
\* they sit: its result is that for the face without those entries, the closed
\* loop over the points of Face::vertices, the resolved points in order.
C21_AsClaimed ==
    /\ op = "edges" => ret = EdgesOfResolved
    /\ op = "vertices" => ret = ResolvedPoints

\* C21 (what the code returns): Face::vertices returns the resolved points in
\* order.  Face::edges equals the edges of the face without its unresolvable
\* entries when the first entry and at least one more resolve, or when the face
\* has fewer than 2 entries; it is empty when the first entry does not resolve,
\* and otherwise as FewResolvedEdges says.
SkippedEntries ==
    /\ op = "vertices" => ret = ResolvedPoints
    /\ op = "edges" =>
        IF Len(arg.indices) < 2 THEN ret = <<>> /\ EdgesOfResolved = <<>>
        ELSE IF ~Resolves(arg.indices[1], arg.vertices) THEN ret = <<>>
        ELSE IF ResolvedCount >= 2 THEN ret = EdgesOfResolved
        ELSE ret # <<>> /\ EdgesOfResolved = <<>>

\* The first entry is out of range and two others resolve: no edge is returned,
\* and the face without the first entry has two edges.
C21_Witness ==
    /\ op = "edges"
    /\ arg.indices = <<3, 0, 1>>
    /\ arg.vertices = <<pA, pB, pC>>
    /\ ret = <<>>
    /\ EdgesOfResolved = <<Edge_new(pA, pB), Edge_new(pB, pA)>>

\* The edge starts and ends at the same point.
Degenerate(edge) == edge.start = edge.end

\* C22 (as claimed): no edge returned by Face::edges is degenerate, for any face
\* and any vertex list, the closing edge included.
C22_AsClaimed ==
    op = "edges" => \A k \in 1..Len(ret) : ~Degenerate(ret[k])

\* C22 (what the code returns): an edge pushed by the loop is degenerate only
\* when its point has a NaN coordinate; the closing edge is pushed without a
\* test, and is degenerate exactly when the last resolved point is the first.
LoopEdgesOnly ==
    (op = "edges" /\ ret # <<>>) =>
        /\ \A k \in 1..(Len(ret) - 1) : Degenerate(ret[k]) => ~NoNaNPoint(ret[k].start)
        /\ ret[Len(ret)] = Edge_new(ResolvedPoints[Len(ResolvedPoints)], ResolvedPoints[1])

\* The face 0,1,0 ends on its first point: its closing edge is (pA,pA).
C22_Witness ==
    /\ op = "edges"
    /\ arg.indices = <<0, 1, 0>>
    /\ arg.vertices = <<pA, pB>>
    /\ ret = <<Edge_new(pA, pB), Edge_new(pB, pA), Edge_new(pA, pA)>>

\* The zoom texts that are an unsigned integer of 0..=255, with their value; the
\* other zoom texts (256, x, -0, the empty text) are none.
ZoomValues == {<<<<"1", "6">>, 16>>, <<<<"2", "5", "5">>, 255>>, <<<<"+", "5">>, 5>>}

\* The colour texts that are an integer of the i32 range, with their colour; the
\* other colour texts (x, 2147483648, the empty text) are none.
ColorCodes ==
    {<<<<"0">>, "Black">>, <<<<"1">>, "DarkBlue">>, <<<<"1", "6">>, "Invalid">>,
     <<<<"-", "1">>, "Invalid">>, <<<<"9", "9">>, "Invalid">>}

IsZoom(text) == \E z \in ZoomValues : z[1] = text
IsColorCode(text) == \E c \in ColorCodes : c[1] = text
ZoomOf(text) == (CHOOSE z \in ZoomValues : z[1] = text)[2]
ColorOf(text) == (CHOOSE c \in ColorCodes : c[1] = text)[2]

\* C23: for a header line of 5 fields, an identifier other than "picocad" gives
\* Identifier; otherwise the first of zoom, background, alpha that is no number
\* of its type gives HeaderField of that field; otherwise the parse succeeds,
\* and a colour code outside 0..=15 gives Color::Invalid.
C23_HeaderPrecedence ==
    (op = "from_str" /\ arg.count = 5) =>
        LET f == arg.fields
        IN  ret = IF f.id # picocad THEN Err(<<"Identifier">>)
                  ELSE IF ~IsZoom(f.zoom) THEN Err(<<"HeaderField", "zoom">>)
                  ELSE IF ~IsColorCode(f.background) THEN Err(<<"HeaderField", "background">>)
                  ELSE IF ~IsColorCode(f.alpha) THEN Err(<<"HeaderField", "alpha">>)
                  ELSE Ok([identifier |-> picocad, name |-> f.name, zoom |-> ZoomOf(f.zoom),
                           background |-> ColorOf(f.background),
                           alpha |-> ColorOf(f.alpha)])

\* A line whose zoom, background and alpha all fail reports the zoom.
C23_Witness ==
    /\ op = "from_str"
    /\ arg.count = 5
    /\ arg.fields = [id |-> picocad, name |-> <<"n">>, zoom |-> <<"2", "5", "6">>,
                     background |-> <<"x">>, alpha |-> <<"x">>]
    /\ ret = Err(<<"HeaderField", "zoom">>)

\* The text has 120 lines of 128 hex digits, each ended by a line break, the
\* digits of the pixels in order.
IsFooterText(text, data) ==
    /\ Len(text) = 120 * 129
    /\ \A line \in 0..119 :
        /\ text[line * 129 + 129] = "\n"
        /\ \A col \in 1..128 :
            /\ text[line * 129 + col] = as_char(data[line * 128 + col])
            /\ \E i \in 1..16 : text[line * 129 + col] = HexChars[i]

\* The written text is the header line, "\n{\n", the mesh literals in list order
\* with `sep` between two of them, "\n}%\n" and the footer text.
IsModelText(text, model, sep) ==
    LET literals == [i \in 1..Len(model.meshes) |->
                        Mesh_to_string(model.meshes[i], arg.overflow_checks).val]
        head == Header_to_string(model.header) \o <<"\n", "{", "\n">>
                    \o Concat([i \in 1..Len(literals) |->
                          literals[i] \o (IF i < Len(literals) THEN sep ELSE <<>>)])
                    \o <<"\n", "}", "%", "\n">>
    IN  /\ Len(text) = Len(head) + 120 * 129
        /\ SubSeq(text, 1, Len(head)) = head
        /\ IsFooterText(SubSeq(text, Len(head) + 1, Len(text)), model.footer)

ReadFooters ==
    {[i \in 1..DATA_LENGHT |-> Colors[((((i - 1) % 128) + 3 * ((i - 1) \div 128)) % 16) + 1]],
     [i \in 1..DATA_LENGHT |-> Colors[((5 * ((i - 1) % 128) + ((i - 1) \div 128)) % 16) + 1]]}

\* Coordinates in ten-thousandths: below, at and above the borders -0.0625 and
\* 15.9375 (14.9375 for v), at and next to the half 0.0625 between two pixels,
\* and the values that are no number.
ReadInner == {-624, -1, 0, 624, 625, 1250, 1874, 1875, 12500}
ReadUs == {-One, -626, -625, 159374, 159375, 159500, NaN, Inf, NegInf} \cup ReadInner
ReadVs == {-One, -626, -625, 149374, 149375, 149500, NaN, Inf, NegInf} \cup ReadInner

InitRead ==
    /\ op = "init"
    /\ arg \in [u : ReadUs, v : ReadVs]
    /\ ret = None
    /\ footer \in ReadFooters
    /\ nsets = 0

FooterRead ==
    /\ op = "init"
    /\ op' = "read"
    /\ ret' = Footer_read(footer, arg)
    /\ UNCHANGED <<arg, footer, nsets>>

NextRead == FooterRead

SpecRead == InitRead /\ [][NextRead]_vars

\* u (or v) is outside the texture: below -0.0625, or at or above `upper`.
OutOfTexture(x, upper) == x # NaN /\ (x < -625 \/ x >= upper)

\* The pixel nearest to 8x, the higher one at a half; 0 for a negative x of the
\* margin, and for NaN.
NearestPixel(x) ==
    IF x = NaN \/ x < 0 THEN 0
    ELSE CHOOSE k \in 0..128 : (2 * k - 1) * One <= 16 * x /\ 16 * x < (2 * k + 1) * One

\* C25: read(u, v) returns Color::Invalid exactly when u < -0.0625, u >= 15.9375,
\* v < -0.0625 or v >= 14.9375; otherwise it returns the pixel at column
\* round(8u), row round(8v), which lies within 0..=127 x 0..=119 (column or row 0
\* in the negative margin), and it never panics.
C25_Read ==
    op = "read" =>
        IF OutOfTexture(arg.u, 159375) \/ OutOfTexture(arg.v, 149375)
        THEN ret = "Invalid"
        ELSE LET col == NearestPixel(arg.u)
                 row == NearestPixel(arg.v)
             IN  /\ col \in 0..127
                 /\ row \in 0..119
                 /\ ret = footer[col + row * 128 + 1]
                 /\ ret # "Invalid"
                 /\ ret # "panic"

\* The last row and the first column: u on the lower border, v just below the
\* upper one.
C25_Witness ==
    /\ op = "read"
    /\ arg = [u |-> -625, v |-> 149374]
    /\ NearestPixel(arg.v) = 119
    /\ ret = footer[119 * 128 + 1]

(***************************************************************************)
(* SpecSetSeq: the program holds a footer and calls set up to MaxSetSeq    *)
(* times and get in between; arg is the footer it started with and the     *)
(* calls of set made so far.                                               *)
(***************************************************************************)
MaxSetSeq == 2

\* Pixels in three corners and next to the first; (128, 0) is out of bounds, and
\* 128 + 0 * 128 is the index of (0, 1).
SeqCoords == {Point2D(0, 0), Point2D(1, 0), Point2D(0, 1), Point2D(127, 119), Point2D(128, 0)}
SeqColors == {"Lavender", "Red"}

PatternFooter == [i \in 1..DATA_LENGHT |-> Colors[((i - 1) % 16) + 1]]

InitialFooter(tag) == IF tag = "default" THEN Footer_default ELSE PatternFooter

InitSetSeq ==
    /\ op = "init"
    /\ arg \in [initial : {"default", "pattern"}, sets : {<<>>}]
    /\ ret = None
    /\ footer = InitialFooter(arg.initial)
    /\ nsets = 0

SeqSet ==
    /\ nsets < MaxSetSeq
    /\ \E coords \in SeqCoords, value \in SeqColors :
        LET r == Footer_set(footer, coords, value)
        IN  /\ op' = "set"
            /\ arg' = [arg EXCEPT !.sets = Append(@, [coords |-> coords, value |-> value,
                                                        ok |-> r.res.ok])]
            /\ ret' = r.res
            /\ footer' = r.data
            /\ nsets' = nsets + 1

SeqGet ==
    \E coords \in SeqCoords :
        /\ op' = "get"
        /\ ret' = [coords |-> coords, got |-> Footer_get(footer, coords)]
        /\ UNCHANGED <<arg, footer, nsets>>

NextSetSeq == SeqSet \/ SeqGet

SpecSetSeq == InitSetSeq /\ [][NextSetSeq]_vars

\* The successful calls of set addressed to the pixel, by their place in the log.
RECURSIVE AfterSets(_)

SetsTo(coords) == {k \in 1..Len(arg.sets) : arg.sets[k].ok /\ arg.sets[k].coords = coords}

Max(S) == CHOOSE k \in S : \A j \in S : j <= k

\* The colour of the last successful set addressed to the pixel, or its initial
\* colour.
LastColor(coords) ==
    IF SetsTo(coords) = {} THEN InitialFooter(arg.initial)[coords.u + coords.v * 128 + 1]
    ELSE arg.sets[Max(SetsTo(coords))].value

\* The initial footer with the colour of each of the first k sets of the log that
\* is in bounds written at u + v * 128, in the order of the log.
AfterSets(k) ==
    IF k = 0 THEN InitialFooter(arg.initial)
    ELSE LET s == arg.sets[k]
         IN  IF InBounds(s.coords)
             THEN [AfterSets(k - 1) EXCEPT ![s.coords.u + s.coords.v * 128 + 1] = s.value]
             ELSE AfterSets(k - 1)

\* C26: set succeeds on the in-bounds coordinates; each pixel holds the colour
\* of the last successful set addressed to it, or its initial colour (so a set
\* changes the pixel u + v * 128 and no other); get returns that colour; and
\* the index u + v * 128 is distinct for distinct in-bounds coordinates.
C26_SetFrame ==
    /\ \A k \in 1..Len(arg.sets) : arg.sets[k].ok <=> InBounds(arg.sets[k].coords)
    /\ footer = AfterSets(Len(arg.sets))
    /\ \A coords \in SeqCoords :
          InBounds(coords) => footer[coords.u + coords.v * 128 + 1] = LastColor(coords)
    /\ op = "get" =>
          ret.got = IF InBounds(ret.coords) THEN Some(LastColor(ret.coords)) ELSE NoneOpt
    /\ op = "init" =>
          \A i \in 0..(DATA_LENGHT - 1) :
              LET coords == Point2D(i % 128, i \div 128)
              IN  InBounds(coords) /\ coords.u + coords.v * 128 = i

\* Two sets to the same pixel and a get of it: the second colour is read.
C26_Witness ==
    /\ op = "get"
    /\ arg.initial = "pattern"
    /\ arg.sets = <<[coords |-> Point2D(0, 1), value |-> "Lavender", ok |-> TRUE],
                    [coords |-> Point2D(0, 1), value |-> "Red", ok |-> TRUE]>>
    /\ ret = [coords |-> Point2D(0, 1), got |-> Some("Red")]
    /\ footer[129] = "Red"
    /\ footer[2] = "DarkBlue"

(***************************************************************************)
(* SpecNorm: a rotation is drawn and normalized once, twice and three      *)
(* times.                                                                  *)
(***************************************************************************)
\* The f64 nearest to each decimal literal (the last two are 1 - 2^-53 and
\* -(0.5 + 2^-53)).
F64Literals ==
    {<<"0.0", F64(FALSE, 0, 0)>>,
     <<"1.0", F64(FALSE, 268435456, 0)>>,
     <<"-1.0", F64(TRUE, 268435456, 0)>>,
     <<"2.0", F64(FALSE, 536870912, 0)>>,
     <<"0.79", F64(FALSE, 212064010, 64424512)>>,
     <<"-0.21", F64(TRUE, 56371445, 204010946)>>,
     <<"-1.21", F64(TRUE, 324806901, 204010944)>>,
     <<"0.1", F64(FALSE, 26843545, 161061274)>>,
     <<"-0.9", F64(TRUE, 241591910, 107374184)>>,
     <<"-0.6", F64(TRUE, 161061273, 161061272)>>,
     <<"0.4", F64(FALSE, 107374182, 107374184)>>,
     <<"2.24", F64(FALSE, 601295421, 118111616)>>,
     <<"0.34", F64(FALSE, 91268055, 10737420)>>,
     <<"0.5", F64(FALSE, 134217728, 0)>>,
     <<"-0.5", F64(TRUE, 134217728, 0)>>,
     <<"0.25", F64(FALSE, 67108864, 0)>>,
     <<"-0.7", F64(TRUE, 187904819, 53687088)>>,
     <<"3.75", F64(FALSE, 1006632960, 0)>>,
     <<"-0.0625", F64(TRUE, 16777216, 0)>>,
     <<"0.9999", F64(FALSE, 268408612, 121977072)>>,
     <<"0.99999999999999989", F64(FALSE, 268435455, 268435448)>>,
     <<"-0.50000000000000011", F64(TRUE, 134217728, 8)>>}

Lit(text) == (CHOOSE p \in F64Literals : p[1] = text)[2]

NormValues == {p[2] : p \in F64Literals} \cup {F64NaN, F64Inf(FALSE), F64Inf(TRUE)}

InitNorm ==
    /\ op = "init"
    /\ arg \in [x : NormValues, y : NormValues, z : {Lit("0.34")}]
    /\ ret = None
    /\ NoFooter

RotNormalize ==
    /\ op = "init"
    /\ op' = "normalize"
    /\ ret' = [once |-> Rotation_normalize_f64(arg),
               twice |-> Rotation_normalize_f64(Rotation_normalize_f64(arg)),
               thrice |-> Rotation_normalize_f64(
                              Rotation_normalize_f64(Rotation_normalize_f64(arg)))]
    /\ UNCHANGED <<arg, footer, nsets>>

NextNorm == RotNormalize

SpecNorm == InitNorm /\ [][NextNorm]_vars

\* r is an f64 of [0, 1).
InUnitRange(r) == r.kind = "finite" /\ ~r.neg /\ r.hi < Limb

\* The real number of [0, 1) congruent to the finite v modulo 1, in units of
\* 2^-56, as the pair of its limbs.
ExactFraction(v) ==
    LET hi == v.hi % Limb
    IN  IF ~v.neg \/ (hi = 0 /\ v.lo = 0) THEN <<hi, v.lo>>
        ELSE IF v.lo = 0 THEN <<Limb - hi, 0>>
        ELSE <<Limb - hi - 1, Limb - v.lo>>

\* r is the number congruent to v modulo 1 up to the rounding of one addition:
\* they differ by at most 2^-53, or r is 0 and the number is within 2^-53 of 1.
NearCongruent(r, v) ==
    LET e == ExactFraction(v)
    IN  \/ /\ r.hi - e[1] \in {-1, 0, 1}
           /\ (r.hi - e[1]) * Limb + (r.lo - e[2]) \in -8..8
        \/ /\ r.hi = 0 /\ r.lo = 0
           /\ e[1] = Limb - 1 /\ e[2] >= Limb - 8

\* The examples of the claim: -0.21 and -1.21 give 0.79, 1.0 and -1.0 give 0.
NormExamples ==
    /\ normalize_closure(Lit("-0.21")) = Lit("0.79")
    /\ normalize_closure(Lit("-1.21")) = Lit("0.79")
    /\ normalize_closure(Lit("1.0")) = Lit("0.0")
    /\ normalize_closure(Lit("-1.0")) = Lit("0.0")

\* C27 (as claimed): normalize() maps every component v to the value in [0, 1)
\* congruent to v modulo 1, as in the examples, and normalizing a normalized
\* rotation changes nothing.
C27_AsClaimed ==
    op = "normalize" =>
        /\ \A c \in Components :
              InUnitRange(ret.once[c]) /\ NearCongruent(ret.once[c], arg[c])
        /\ NormExamples
        /\ ret.twice = ret.once

\* C27 (amended): a finite component is mapped into [0, 1), to the number
\* congruent to it modulo 1 up to the rounding of the addition; a NaN or
\* infinite component becomes NaN; the examples hold; a second application
\* changes a component exactly when the first result is no multiple of 2^-52,
\* which happens for negative components only; a third changes nothing.
C27_Normalize ==
    op = "normalize" =>
        /\ \A c \in Components :
              /\ arg[c].kind = "finite" =>
                    /\ InUnitRange(ret.once[c])
                    /\ NearCongruent(ret.once[c], arg[c])
                    /\ ret.twice[c] = ret.once[c] <=> ret.once[c].lo % 16 = 0
                    /\ ~arg[c].neg => ret.twice[c] = ret.once[c]
              /\ arg[c].kind # "finite" => ret.once[c] = F64NaN
              /\ ret.thrice[c] = ret.twice[c]
        /\ NormExamples

\* -0.6 is normalized to 0.4, and 0.4 to 0.3999999999999999.
C27_Witness ==
    /\ op = "normalize"
    /\ arg.x = Lit("-0.6")
    /\ arg.y = Lit("-1.21")
    /\ ret.once.x = Lit("0.4")
    /\ ret.once.y = Lit("0.79")
    /\ ret.twice.x = F64(FALSE, 107374182, 107374176)
    /\ ret.thrice = ret.twice

(***************************************************************************)
(* SpecMeshStr: a mesh literal with some of its five fields is drawn, and  *)
(* Mesh::from_str decodes it.                                              *)
(***************************************************************************)
\* The text of each field, by its place in MeshKeys.
MeshFieldTexts ==
    <<<<"n", "a", "m", "e", "=", "'", "m", "'">>,
      <<"p", "o", "s", "=", "{", "0", ",", "0", ".", "5", ",", "1", "}">>,
      <<"r", "o", "t", "=", "{", "0", ".", "2", "5", ",", "0", ",", "0", "}">>,
      <<"v", "=", "{", " ", "{", "0", ",", "0", ",", "0", "}", ",", "{", "1", ",", "0", ",", "0", "}", " ", "}">>,
      <<"f", "=", "{", " ", "{", "1", ",", "2", ",", " ", "c", "=", "1", "1", ",", " ", "u", "v", "=", "{", "0", ",", "0", ",", "1", ",", "0", ".", "5", "}", " ", "}", " ", "}">>>>

MeshStrOrders == {<<1, 2, 3, 4, 5>>, <<5, 4, 3, 2, 1>>}

\* The literal with the fields of `present`, in the order given.
MeshLiteral(present, order) ==
    LET kept == SelectSeq(order, LAMBDA k : k \in present)
    IN  <<"{">> \o Concat([i \in 1..Len(kept) |->
                              (IF i > 1 THEN <<",">> ELSE <<>>) \o MeshFieldTexts[kept[i]]])
            \o <<"}">>

InitMeshStr ==
    /\ op = "init"
    /\ arg \in [present : SUBSET (1..5), order : MeshStrOrders, overflow_checks : BOOLEAN]
    /\ ret = None
    /\ NoFooter

MeshFromStr ==
    /\ op = "init"
    /\ op' = "from_str"
    /\ ret' = Mesh_from_str(MeshLiteral(arg.present, arg.order), arg.overflow_checks)
    /\ UNCHANGED <<arg, footer, nsets>>

NextMeshStr == MeshFromStr

SpecMeshStr == InitMeshStr /\ [][NextMeshStr]_vars

\* The mesh all five fields of whose literal are there.
FullMesh ==
    [name |-> <<"m">>,
     position |-> Point3D(0, One \div 2, One),
     rotation |-> Point3D(One \div 4, 0, 0),
     vertices |-> <<Point3D(0, 0, 0), Point3D(One, 0, 0)>>,
     faces |-> <<[FaceOf(<<0, 1>>) EXCEPT
                    !.color = "Green",
                    !.uv_maps = <<UVMap_new(0, Point2D(0, 0)),
                                  UVMap_new(1, Point2D(One, One \div 2))>>]>>]

MeshFieldOf(k) ==
    CASE k = 1 -> "name" [] k = 2 -> "position" [] k = 3 -> "rotation"
      [] k = 4 -> "vertices" [] k = 5 -> "faces"

\* The value the claim gives a field that the literal lacks.
ClaimedDefault(k) ==
    CASE k = 1 -> <<"m", "e", "s", "h">> [] k = 2 -> Point3D(0, 0, 0)
      [] k = 3 -> Point3D(0, 0, 0) [] k = 4 -> <<>> [] k = 5 -> <<>>

\* C28 (as claimed): a mesh literal that lacks name decodes to a mesh named
\* "mesh"; lacking pos or rot, to the origin for that field; lacking v or f, to
\* an empty list.
C28_AsClaimed ==
    op = "from_str" =>
        /\ ret.ok
        /\ \A k \in 1..5 :
              ret.val[MeshFieldOf(k)] =
                  IF k \in arg.present THEN FullMesh[MeshFieldOf(k)] ELSE ClaimedDefault(k)

\* C28 (what the code returns): as claimed for pos, rot, v and f; a literal that
\* lacks name decodes to a mesh whose name is empty.
MeshDefaults ==
    op = "from_str" =>
        /\ ret.ok
        /\ \A k \in 1..5 :
              ret.val[MeshFieldOf(k)] =
                  IF k \in arg.present THEN FullMesh[MeshFieldOf(k)]
                  ELSE IF k = 1 THEN <<>> ELSE ClaimedDefault(k)

\* The literal without a name, its four other fields there.
C28_Witness ==
    /\ op = "from_str"
    /\ arg.present = {2, 3, 4, 5}
    /\ ret.ok
    /\ ret.val = [FullMesh EXCEPT !.name = <<>>]

(***************************************************************************)
(* SpecShadow: a colour and one of the two shadow functions are drawn, and *)
(* the function is applied to its own result up to MaxShadowSteps times.   *)
(***************************************************************************)
MaxShadowSteps == 6

InitShadow ==
    /\ op = "init"
    /\ arg \in [start : Color, fn : {"shadow", "shadow_transition"}]
    /\ ret = [color |-> arg.start, steps |-> 0]
    /\ NoFooter

ColorShadow ==
    /\ arg.fn = "shadow"
    /\ ret.steps < MaxShadowSteps
    /\ op' = "shadow"
    /\ ret' = [color |-> shadow(ret.color), steps |-> ret.steps + 1]
    /\ UNCHANGED <<arg, footer, nsets>>

ColorShadowTransition ==
    /\ arg.fn = "shadow_transition"
    /\ ret.steps < MaxShadowSteps
    /\ op' = "shadow_transition"
    /\ ret' = [color |-> shadow_transition(ret.color), steps |-> ret.steps + 1]
    /\ UNCHANGED <<arg, footer, nsets>>

NextShadow == ColorShadow \/ ColorShadowTransition

\* Each application returns, so the next one is made.
SpecShadow ==
    InitShadow /\ [][NextShadow]_vars
        /\ WF_vars(ColorShadow) /\ WF_vars(ColorShadowTransition)

\* After any number of applications: a valid colour has not become Invalid,
\* Invalid has stayed Invalid, Black is reached by the third application of
\* shadow and by the fifth of shadow_transition and is kept, and no colour but
\* Black and Invalid has come back to itself.
ShadowSteps ==
    /\ arg.start = "Invalid" <=> ret.color = "Invalid"
    /\ (arg.start # "Invalid" /\ ret.steps >= (IF arg.fn = "shadow" THEN 3 ELSE 5))
          => ret.color = "Black"
    /\ (ret.steps > 0 /\ ret.color = arg.start) => arg.start \in {"Black", "Invalid"}
    /\ shadow("Black") = "Black" /\ shadow_transition("Black") = "Black"

\* C29: the shadow tables have no cycle but the self-loops at Black and Invalid:
\* from every valid colour, repeating shadow() reaches Black within 3 steps and
\* repeating shadow_transition() within 5; no valid colour is mapped to Invalid,
\* and Invalid is mapped to itself.
C29_Shadow ==
    /\ []ShadowSteps
    /\ (arg.start # "Invalid") ~> (ret.color = "Black")

\* Yellow after four steps of shadow_transition: DarkBlue, one step from Black.
C29_Witness ==
    /\ op = "shadow_transition"
    /\ arg.start = "Yellow"
    /\ ret = [color |-> "DarkBlue", steps |-> 4]

\* The entry of the positional part converts to usize: an integer that is not
\* negative.
ConvertsToUsize(v) == v.t = "integer" /\ v.n >= 0

\* The places of the positional part at which decoding stops: an entry that does
\* not convert, or a 0 in a build with overflow checks.
StopsAt(seq, overflow_checks) ==
    {k \in 1..Len(seq) : ~ConvertsToUsize(seq[k]) \/ (seq[k].n = 0 /\ overflow_checks)}

\* C30 (as claimed): Face decoding returns a Face or a PicoError and never
\* aborts; a wire index of 0 or below gives an error, so every vertex_index of
\* a decoded Face is its wire index minus 1, the wire index being 1 or more.
C30_AsClaimed ==
    op = "try_from" =>
        LET seq == arg.table.seq
        IN  /\ ret # Panic
            /\ (\E k \in 1..Len(seq) : seq[k].t = "integer" /\ seq[k].n <= 0) => ~ret.ok
            /\ ret.ok =>
                  /\ Len(ret.val.uv_maps) = Len(seq)
                  /\ \A k \in 1..Len(seq) :
                        seq[k].n >= 1 /\ ret.val.uv_maps[k].vertex_index = seq[k].n - 1

\* C30 (what the code returns): decoding stops at the first entry that does not
\* convert to usize, with the conversion error, or at the first 0 in a build
\* with overflow checks, where it panics; without overflow checks a 0 is decoded
\* to the vertex_index usize::MAX.
FaceDecodeOutcomes ==
    op = "try_from" =>
        LET seq == arg.table.seq
            stops == StopsAt(seq, arg.overflow_checks)
        IN  IF stops # {}
            THEN LET k == CHOOSE j \in stops : \A i \in stops : j <= i
                 IN  ret = IF ConvertsToUsize(seq[k]) THEN Panic ELSE Err(LuaError)
            ELSE /\ ret # Panic
                 /\ ret.ok =>
                       /\ Len(ret.val.uv_maps) = Len(seq)
                       /\ \A k \in 1..Len(seq) :
                             ret.val.uv_maps[k].vertex_index
                                 = IF seq[k].n = 0 THEN USIZE_MAX ELSE seq[k].n - 1

\* The face 0,1 in a build with overflow checks: the decoding panics.
C30_Witness ==
    /\ op = "try_from"
    /\ arg.overflow_checks
    /\ arg.table.seq = <<LuaInteger(0), LuaInteger(1)>>
    /\ ret = Panic

====
